---- MODULE Spec2Model ----
(***************************************************************************)
(* A model of the Wabbit compiler project: the definitional interpreter    *)
(* (src/wabbit/interp.py), the tokenizer and the parser, the type checker, *)
(* the stack machine WVM with its code generator, and the register machine *)
(* Metal (src/metal/metal.py).  Each has a specification of its own over   *)
(* the same variables: Spec, TokenizerSpec, ParserSpec, StreamSpec,        *)
(* WVMSpec and MetalSpec.                                                  *)
(*                                                                         *)
(* The interpreter is a recursive function interpret(node, context) over   *)
(* the data model of src/wabbit/model.py.  It is modelled as the recursive *)
(* operator Interp(node, c, st): node is the model object (a record whose  *)
(* field k names its class), c is the Context object (an index into the    *)
(* heap of Context objects) and st is the mutable world the call can       *)
(* change: the heap of contexts and the text written to standard output.   *)
(* The operator yields what the Python call yields: a (type, value) tuple, *)
(* None, or a raised exception, together with the world it leaves behind.  *)
(*                                                                         *)
(* Spec runs interpret_program: the top-level Block is executed one        *)
(* statement at a time in the root context.                                *)
(***************************************************************************)
EXTENDS Integers, Sequences, FiniteSets, TLC

VARIABLES
    program,   \* the model handed to interpret_program: a Block
    pc,        \* index of the next statement of the top-level Block
    heap,      \* the Context objects created so far: Seq of [env, parent]
    out,       \* the text written to standard output so far
    result,    \* what interpret() yielded for the last top-level statement
    status,    \* the stage reached ("read", "parsed", "generated", "running",
               \* "returned", ...) or the class of the exception raised
    source,        \* Program.source: the text being tokenized or parsed
    SYMBOL_TABLE,  \* the module-level dict of parse.py
    history,       \* the calls of parse_source made so far in this process
    gen,           \* the generator object of tokenize(program)
    tokens,        \* the tokens the generator or the stream has handed out so far
    stream,        \* a TokenStream object: the generator and the lookahead
    call,          \* the last call made on the stream, and what it gave
    code,          \* the instructions handed to WVM.run or Metal.run
    machine,       \* the WVM or Metal object
    have_errors    \* Program.have_errors

interpVars == <<pc, heap, result>>
parserVars == <<source, SYMBOL_TABLE, history>>
tokenizerVars == <<gen, tokens>>
streamVars == <<stream, call>>
machineVars == <<code, machine>>
laterVars == <<streamVars, machineVars, have_errors>>

vars == <<program, pc, heap, out, result, status, source, SYMBOL_TABLE, history, gen, tokens,
          stream, call, code, machine, have_errors>>

(***************************************************************************)
(* Bounds of the model.                                                    *)
(***************************************************************************)
\* iterations of one while statement that the model follows
MaxIter == 6
\* largest integer literal that int(lexeme) recognises
MaxLit == 12
\* number of fraction digits that str(float) produces at most
MaxFracDigits == 6
\* largest loop threshold / literal parameter of the program families
MaxK == 3

(***************************************************************************)
(* Python values.  Every value has the same shape: py is the Python type,  *)
(* n/d the number (d = 1 for int and bool, n/d in lowest terms for float), *)
(* s the text of a str.                                                    *)
(***************************************************************************)
PyInt(n) == [py |-> "int", n |-> n, d |-> 1, s |-> ""]
PyBool(b) == [py |-> "bool", n |-> IF b THEN 1 ELSE 0, d |-> 1, s |-> ""]
PyStr(s) == [py |-> "str", n |-> 0, d |-> 1, s |-> s]
PyNone == [py |-> "NoneType", n |-> 0, d |-> 1, s |-> ""]
\* a model object used as a value (the FunctionDefinition held by a binding)
PyNode(node) == [py |-> "node", n |-> 0, d |-> 1, s |-> "", node |-> node]

Abs(n) == IF n < 0 THEN -n ELSE n

RECURSIVE Gcd(_, _)
Gcd(a, b) == IF b = 0 THEN a ELSE Gcd(b, a % b)

\* a float: the rational n/d in lowest terms with d > 0
PyFloat(n, d) ==
    LET g == Gcd(Abs(n), Abs(d))
        sgn == IF d < 0 THEN -1 ELSE 1
    IN [py |-> "float", n |-> sgn * (n \div g), d |-> sgn * (d \div g), s |-> ""]

\* the one-character str '\x00'
NUL == "\\x00"

(***************************************************************************)
(* str(value), as print() writes it.                                       *)
(***************************************************************************)
RECURSIVE FracDigits(_, _, _)
FracDigits(r, d, fuel) ==
    IF r = 0 \/ fuel = 0 THEN ""
    ELSE ToString((r * 10) \div d) \o FracDigits((r * 10) % d, d, fuel - 1)

FloatStr(n, d) ==
    (IF n < 0 THEN "-" ELSE "") \o ToString(Abs(n) \div d) \o "." \o
    (IF Abs(n) % d = 0 THEN "0" ELSE FracDigits(Abs(n) % d, d, MaxFracDigits))

Str(v) ==
    CASE v.py = "int" -> ToString(v.n)
      [] v.py = "float" -> FloatStr(v.n, v.d)
      [] v.py = "bool" -> IF v.n = 1 THEN "True" ELSE "False"
      [] v.py = "str" -> v.s
      [] v.py = "NoneType" -> "None"
      [] OTHER -> "<node>"

\* Python truth value
Truthy(v) ==
    CASE v.py \in {"int", "float", "bool"} -> v.n # 0
      [] v.py = "str" -> v.s # ""
      [] v.py = "NoneType" -> FALSE
      [] OTHER -> TRUE

(***************************************************************************)
(* Conversions of lexemes: int(lexeme), float(lexeme), eval(lexeme).       *)
(***************************************************************************)
\* int('12'): the number whose decimal text is the lexeme
IntOfLexeme(s) == CHOOSE n \in 0..MaxLit : ToString(n) = s

\* the float literals of the model: n/d for d a divisor of 100
FloatLits == {PyFloat(n, d) : n \in 0..MaxLit, d \in {1, 2, 4, 5, 10}}

\* float('2.5'): the float whose text is the lexeme
FloatOfLexeme(s) == CHOOSE q \in FloatLits : FloatStr(q.n, q.d) = s

\* the characters of the model, with their code points
Ord(ch) ==
    CASE ch = "a" -> 97
      [] ch = "b" -> 98
      [] ch = "7" -> 55
      [] ch = "\n" -> 10
      [] ch = NUL -> 0

Chars == {"a", "b", "7", "\n"}

\* the source text of a character literal, quotes included
CharLexeme(ch) ==
    CASE ch = "a" -> "'a'"
      [] ch = "b" -> "'b'"
      [] ch = "7" -> "'7'"
      [] ch = "\n" -> "'\\n'"

\* eval("'a'") = 'a': Python evaluates the quoted literal to the character
EvalCharLexeme(s) == CHOOSE ch \in Chars : CharLexeme(ch) = s

\* eval(value) applied to a value that already is a Python object:
\* a digit evaluates to an int, a letter is an undefined name, white space
\* is not an expression; eval of a non-str is a TypeError
EvalValue(v) ==
    IF v.py # "str" THEN [exc |-> "TypeError", v |-> PyNone]
    ELSE CASE v.s = "7" -> [exc |-> "", v |-> PyInt(7)]
           [] v.s \in {"a", "b"} -> [exc |-> "NameError", v |-> PyNone]
           [] v.s = NUL -> [exc |-> "ValueError", v |-> PyNone]
           [] OTHER -> [exc |-> "SyntaxError", v |-> PyNone]

\* _default_type_values
HasDefaultTypeValue(t) == t \in {"int", "float", "bool", "char"}
DefaultTypeValue(t) ==
    CASE t = "int" -> PyInt(0)
      [] t = "float" -> PyFloat(0, 1)
      [] t = "bool" -> PyBool(FALSE)
      [] t = "char" -> PyStr(NUL)

(***************************************************************************)
(* What a call of interpret() yields.                                      *)
(***************************************************************************)
Tuple(t, v, st) == [oc |-> "tuple", exc |-> "", t |-> t, v |-> v, st |-> st]
RetNone(st) == [oc |-> "None", exc |-> "", t |-> "", v |-> PyNone, st |-> st]
Raise(exc, st) == [oc |-> "raise", exc |-> exc, t |-> "", v |-> PyNone, st |-> st]
\* raise FunctionReturnFlowBreaker(return_type, return_value)
RaiseReturn(t, v, st) ==
    [oc |-> "raise", exc |-> "FunctionReturnFlowBreaker", t |-> t, v |-> v, st |-> st]

\* "a, b = interpret(...)": unpacking None is a TypeError
Unpack(r) == IF r.oc = "None" THEN Raise("TypeError", r.st) ELSE r

Write(st, text) == [st EXCEPT !.out = st.out \o text]

(***************************************************************************)
(* class Context                                                           *)
(***************************************************************************)
NoEnv == [x \in {} |-> 0]

\* Context(parent): a new object on the heap; its index is Len(heap) + 1
SpawnChildContext(st, c) ==
    [st EXCEPT !.heap = Append(st.heap, [env |-> NoEnv, parent |-> c])]

NewContext(st) == Len(st.heap)

RECURSIVE Lookup(_, _, _)
Lookup(h, c, name) ==
    IF name \in DOMAIN h[c].env THEN [found |-> TRUE, b |-> h[c].env[name]]
    ELSE IF h[c].parent # 0 THEN Lookup(h, h[c].parent, name)
    ELSE [found |-> FALSE, b |-> <<>>]

\* display_stack: one line per context of the chain (the dict's text is
\* not modelled)
RECURSIVE DisplayStack(_, _)
DisplayStack(h, c) ==
    "[Stack]\n" \o (IF h[c].parent # 0 THEN DisplayStack(h, h[c].parent) ELSE "")

SetBinding(h, c, name, b) == [h EXCEPT ![c].env = (name :> b) @@ h[c].env]

Define(st, c, name, initializer) ==
    IF name \in DOMAIN st.heap[c].env
    THEN IF st.heap[c].env[name].kind = "func"
         THEN Raise("RuntimeError", st)
         ELSE Raise("RuntimeError", Write(st, DisplayStack(st.heap, c)))
    ELSE RetNone([st EXCEPT !.heap = SetBinding(st.heap, c, name, initializer)])

\* assign: recurses into the parent when the name is not in this scope,
\* and then stores into this scope as well
RECURSIVE Assign(_, _, _, _)
Assign(h, c, name, value) ==
    IF name \notin DOMAIN h[c].env
    THEN IF h[c].parent # 0
         THEN LET up == Assign(h, h[c].parent, name, value)
              IN IF up.ok THEN [ok |-> TRUE, heap |-> SetBinding(up.heap, c, name, value)]
                 ELSE up
         ELSE [ok |-> FALSE, heap |-> h]
    ELSE [ok |-> TRUE, heap |-> SetBinding(h, c, name, value)]

Binding(kind, t, v) == [kind |-> kind, type |-> t, value |-> v]

(***************************************************************************)
(* The data model (src/wabbit/model.py): one record per object, k names    *)
(* its class.  Lists are sequences; None is NoneNode.                      *)
(***************************************************************************)
NoneNode == [k |-> "NoneType"]
\* a str held by the attribute "value" (a lexeme or an identifier)
Lexeme(text) == [str |-> text]
Integer(value) == [k |-> "Integer", value |-> Lexeme(value)]
Float(value) == [k |-> "Float", value |-> Lexeme(value)]
Char(value) == [k |-> "Char", value |-> Lexeme(value)]
Boolean(value) == [k |-> "Boolean", value |-> Lexeme(value)]
Name(value) == [k |-> "Name", value |-> Lexeme(value)]
BinOp(op, left, right) == [k |-> "BinOp", op |-> op, left |-> left, right |-> right]
RelOp(op, left, right) == [k |-> "RelOp", op |-> op, left |-> left, right |-> right]
LogicalOp(op, left, right) == [k |-> "LogicalOp", op |-> op, left |-> left, right |-> right]
UnaryOp(op, value) == [k |-> "UnaryOp", op |-> op, value |-> value]
Grouped(value) == [k |-> "Grouped", value |-> value]
Assignment(location, value) == [k |-> "Assignment", location |-> location, value |-> value]
Compound(statements) == [k |-> "Compound", statements |-> statements]
ExprStatement(value) == [k |-> "ExprStatement", value |-> value]
PrintStatement(value) == [k |-> "PrintStatement", value |-> value]
IfStatement(test, consequence, alternative) ==
    [k |-> "IfStatement", test |-> test, consequence |-> consequence,
     alternative |-> alternative]
WhileStatement(test, body) == [k |-> "WhileStatement", test |-> test, body |-> body]
ConstDeclaration(name, type, initializer) ==
    [k |-> "ConstDeclaration", name |-> name, type |-> type, initializer |-> initializer]
VarDeclaration(name, type, initializer) ==
    [k |-> "VarDeclaration", name |-> name, type |-> type, initializer |-> initializer]
BreakStatement == [k |-> "BreakStatement"]
ContinueStatement == [k |-> "ContinueStatement"]
Block(statements) == [k |-> "Block", statements |-> statements]
Type(name) == [k |-> "Type", name |-> name]
\* fn_parameters is the parameters_list of the FunctionParameters object
FunctionDefinition(name, fn_parameters, fn_return_type, fn_code_block) ==
    [k |-> "FunctionDefinition", name |-> name, fn_parameters |-> fn_parameters,
     fn_return_type |-> fn_return_type, fn_code_block |-> fn_code_block]
FunctionParameter(name, type, initializer) ==
    [k |-> "FunctionParameter", name |-> name, type |-> type, initializer |-> initializer]
FunctionReturn(expression) == [k |-> "FunctionReturn", expression |-> expression]
\* fn_arguments is the arguments_list of the FunctionArguments object
FunctionApplication(name, fn_arguments) ==
    [k |-> "FunctionApplication", name |-> name, fn_arguments |-> fn_arguments]

\* the classes whose objects have an attribute "value"
HasValueAttribute(node) ==
    node.k \in {"Integer", "Float", "Char", "Boolean", "Name", "UnaryOp", "Grouped",
                "Assignment", "ExprStatement", "PrintStatement"}

\* node.value == 'true', for a node that has the attribute: the attribute
\* is a str for literals and names, a model object otherwise
ValueAttributeIsTrue(node) == node.value = Lexeme("true")

\* the type a FunctionDefinition binding records: a Type object, which is
\* equal to no str
TypeObject(type) == "<Type " \o type.name \o ">"

(***************************************************************************)
(* Arithmetic and comparison of Python values.                             *)
(***************************************************************************)
Arith(op, t, l, r) ==
    CASE op = "+" -> [exc |-> "", v |-> IF t = "int" THEN PyInt(l.n + r.n)
                                        ELSE PyFloat(l.n * r.d + r.n * l.d, l.d * r.d)]
      [] op = "-" -> [exc |-> "", v |-> IF t = "int" THEN PyInt(l.n - r.n)
                                        ELSE PyFloat(l.n * r.d - r.n * l.d, l.d * r.d)]
      [] op = "*" -> [exc |-> "", v |-> IF t = "int" THEN PyInt(l.n * r.n)
                                        ELSE PyFloat(l.n * r.n, l.d * r.d)]
      [] op = "/" ->
            IF r.n = 0 THEN [exc |-> "ZeroDivisionError", v |-> PyNone]
            ELSE IF t = "int" THEN [exc |-> "", v |-> PyInt(l.n \div r.n)]
            ELSE [exc |-> "", v |-> PyFloat(l.n * r.d, l.d * r.n)]
      [] OTHER -> [exc |-> "RuntimeError", v |-> PyNone]

IsNumber(v) == v.py \in {"int", "float", "bool"}

\* -1, 0, 1 for two numbers or two characters
Cmp(l, r) ==
    LET a == IF IsNumber(l) THEN l.n * r.d ELSE Ord(l.s)
        b == IF IsNumber(l) THEN r.n * l.d ELSE Ord(r.s)
    IN IF a < b THEN -1 ELSE IF a = b THEN 0 ELSE 1

Comparable(l, r) ==
    \/ IsNumber(l) /\ IsNumber(r)
    \/ l.py = "str" /\ r.py = "str"

Relate(op, t, l, r) ==
    IF ~ ((t \in {"int", "float", "char"} /\ op \in {"<", "<=", "==", ">=", ">", "!="})
          \/ (t = "bool" /\ op \in {"==", "!="}))
    THEN [exc |-> "RuntimeError", v |-> PyNone]
    ELSE IF ~ Comparable(l, r)
    THEN IF op = "==" THEN [exc |-> "", v |-> PyBool(FALSE)]
         ELSE IF op = "!=" THEN [exc |-> "", v |-> PyBool(TRUE)]
         ELSE [exc |-> "TypeError", v |-> PyNone]
    ELSE LET c == Cmp(l, r)
         IN [exc |-> "",
             v |-> PyBool(CASE op = "<" -> c < 0
                            [] op = "<=" -> c <= 0
                            [] op = "==" -> c = 0
                            [] op = ">=" -> c >= 0
                            [] op = ">" -> c > 0
                            [] op = "!=" -> c # 0)]

(***************************************************************************)
(* interpret(node, context)                                                *)
(***************************************************************************)
RECURSIVE Interp(_, _, _)
RECURSIVE InterpStatements(_, _, _, _)
RECURSIVE WhileLoop(_, _, _, _)
RECURSIVE DefineParameters(_, _, _, _)
RECURSIVE BindArguments(_, _, _, _, _, _)
RECURSIVE FunctionBody(_, _, _, _)

\* what a print statement writes for a value of the given Wabbit type
PrintText(valuetype, value) ==
    IF valuetype = "char" THEN Str(value)
    ELSE IF valuetype = "bool" THEN (IF Truthy(value) THEN "true" ELSE "false") \o "\n"
    ELSE Str(value) \o "\n"

InterpPrintStatement(node, c, st) ==
    LET r == Unpack(Interp(node.value, c, st))
    IN IF r.oc = "raise" THEN r
       ELSE RetNone(Write(r.st, PrintText(r.t, r.v)))

InterpName(node, c, st) ==
    LET b == Lookup(st.heap, c, node.value.str)
    IN IF b.found THEN Tuple(b.b.type, b.b.value, st)
       ELSE Raise("RuntimeError", st)

InterpBinOp(node, c, st) ==
    LET l == Unpack(Interp(node.left, c, st))
    IN IF l.oc = "raise" THEN l
       ELSE LET r == Unpack(Interp(node.right, c, l.st))
            IN IF r.oc = "raise" THEN r
               ELSE IF l.t # r.t THEN Raise("RuntimeError", r.st)
               ELSE IF l.t \in {"int", "float"}
                    THEN LET a == Arith(node.op, l.t, l.v, r.v)
                         IN IF a.exc # "" THEN Raise(a.exc, r.st)
                            ELSE Tuple(l.t, a.v, r.st)
               ELSE Raise("RuntimeError", r.st)

InterpRelOp(node, c, st) ==
    LET l == Unpack(Interp(node.left, c, st))
    IN IF l.oc = "raise" THEN l
       ELSE LET r == Unpack(Interp(node.right, c, l.st))
            IN IF r.oc = "raise" THEN r
               ELSE IF l.t # r.t THEN Raise("RuntimeError", r.st)
               ELSE LET a == Relate(node.op, l.t, l.v, r.v)
                    IN IF a.exc # "" THEN Raise(a.exc, r.st)
                       ELSE Tuple("bool", a.v, r.st)

InterpUnaryOp(node, c, st) ==
    LET r == Unpack(Interp(node.value, c, st))
    IN IF r.oc = "raise" THEN r
       ELSE IF r.t \in {"int", "float"}
            THEN Tuple(r.t, IF node.op = "-" THEN [r.v EXCEPT !.n = -(r.v.n)] ELSE r.v, r.st)
       ELSE IF r.t = "bool" THEN Tuple(r.t, PyBool(~ Truthy(r.v)), r.st)
       ELSE Raise("RuntimeError", r.st)

InterpConstDeclaration(node, c, st) ==
    LET r == Unpack(Interp(node.initializer, c, st))
    IN IF r.oc = "raise" THEN r
       ELSE IF r.t \in {"int", "float", "bool", "char"}
            THEN Define(r.st, c, node.name, Binding("const", r.t, r.v))
       ELSE Raise("RuntimeError", r.st)

InterpVarDeclaration(node, c, st) ==
    IF node.initializer # NoneNode
    THEN LET r == Unpack(Interp(node.initializer, c, st))
         IN IF r.oc = "raise" THEN r
            ELSE Define(r.st, c, node.name, Binding("var", r.t, r.v))
    ELSE IF node.type = NoneNode THEN Raise("AttributeError", st)
    ELSE IF ~ HasDefaultTypeValue(node.type.name) THEN Raise("KeyError", st)
    ELSE Define(st, c, node.name,
                Binding("var", node.type.name, DefaultTypeValue(node.type.name)))

InterpFunctionDefinition(node, c, st) ==
    Define(st, c, node.name.value.str,
           Binding("func", TypeObject(node.fn_return_type), PyNode(node)))

\* EvaluatesRight without the short circuit: the right operand always runs
EvaluatesRightAlways(op, left_val) == TRUE

\* whether the right operand of a logical operator is evaluated
EvaluatesRight(op, left_val) ==
    IF op = "||" THEN ~ Truthy(left_val) ELSE Truthy(left_val)

InterpLogicalOp(node, c, st) ==
    LET l == Unpack(Interp(node.left, c, st))
    IN IF l.oc = "raise" THEN l
       ELSE IF l.t # "bool" THEN Raise("RuntimeError", l.st)
       ELSE IF node.op \notin {"||", "&&"} THEN Raise("RuntimeError", l.st)
       ELSE IF EvaluatesRight(node.op, l.v) THEN Interp(node.right, c, l.st)
       ELSE Tuple(l.t, l.v, l.st)

\* AssignmentRefused without the test for const
AssignmentRefusedNever(left_kind) == FALSE

\* whether an assignment to a binding of this kind is refused
AssignmentRefused(left_kind) == left_kind = "const"

\* the value an Assignment expression returns
AssignmentResult(left_value, right_value) == left_value

InterpAssignment(node, c, st) ==
    LET r == Unpack(Interp(node.value, c, st))
    IN IF r.oc = "raise" THEN r
       ELSE LET b == Lookup(r.st.heap, c, node.location.value.str)
            IN IF ~ b.found THEN Raise("RuntimeError", r.st)
               ELSE IF AssignmentRefused(b.b.kind) THEN Raise("RuntimeError", r.st)
               ELSE IF b.b.type # r.t THEN Raise("RuntimeError", r.st)
               ELSE LET a == Assign(r.st.heap, c, node.location.value.str,
                                     Binding(b.b.kind, b.b.type, r.v))
                    IN IF ~ a.ok THEN Raise("RuntimeError", r.st)
                       ELSE Tuple(b.b.type, AssignmentResult(b.b.value, r.v),
                                  [r.st EXCEPT !.heap = a.heap])

InterpIfStatement(node, c, st) ==
    LET r == Unpack(Interp(node.test, c, st))
    IN IF r.oc = "raise" THEN r
       ELSE IF r.t # "bool" THEN Raise("RuntimeError", r.st)
       ELSE IF Truthy(r.v)
            THEN LET s1 == SpawnChildContext(r.st, c)
                     b == Interp(node.consequence, NewContext(s1), s1)
                 IN IF b.oc = "raise" THEN b ELSE RetNone(b.st)
       ELSE IF node.alternative # NoneNode /\ node.alternative.statements # <<>>
            THEN LET s1 == SpawnChildContext(r.st, c)
                     b == Interp(node.alternative, NewContext(s1), s1)
                 IN IF b.oc = "raise" THEN b ELSE RetNone(b.st)
       ELSE RetNone(r.st)

\* WhileCatches with "except Exception": the return exit is caught as well
WhileCatchesReturnToo(exc) ==
    exc \in {"Break", "Continue", "FunctionReturnFlowBreaker"}

\* the exceptions a while statement catches
WhileCatches(exc) == exc \in {"Break", "Continue"}

\* LeavesLoop with the two handlers swapped
LeavesLoopOnContinue(exc) == exc = "Continue"

\* what a while statement does with the exception it caught
LeavesLoop(exc) == exc = "Break"

\* one round of "while True:"; fuel counts the rounds the model follows
WhileLoop(node, c, st, fuel) ==
    IF fuel = 0 THEN Raise("Diverges", st)
    ELSE LET r == Unpack(Interp(node.test, c, st))
         IN IF r.oc = "raise" THEN r
            ELSE IF r.t # "bool" THEN Raise("RuntimeError", r.st)
            ELSE IF ~ Truthy(r.v) THEN RetNone(r.st)
            ELSE LET b == Interp(node.body, c, r.st)
                 IN IF b.oc = "raise"
                    THEN IF WhileCatches(b.exc)
                         THEN IF LeavesLoop(b.exc) THEN RetNone(b.st)
                              ELSE WhileLoop(node, c, b.st, fuel - 1)
                         ELSE b
                    ELSE WhileLoop(node, c, b.st, fuel - 1)

\* "for statement in statements: interpret(statement, context)" from index i
InterpStatements(statements, i, c, st) ==
    IF i > Len(statements) THEN RetNone(st)
    ELSE LET r == Interp(statements[i], c, st)
         IN IF r.oc = "raise" THEN r
            ELSE InterpStatements(statements, i + 1, c, r.st)

InterpCompound(node, c, st) ==
    LET s1 == SpawnChildContext(st, c)
        child == NewContext(s1)
        n == Len(node.statements)
        r == InterpStatements(SubSeq(node.statements, 1, n - 1), 1, child, s1)
    IN IF r.oc = "raise" THEN r
       ELSE Interp(node.statements[n], child, r.st)

InterpBlock(node, c, st) ==
    IF node.statements # <<>> THEN InterpStatements(node.statements, 1, c, st)
    ELSE Raise("RuntimeError", st)

\* int(value) and float(value) of a Python value
IntOf(v) ==
    CASE v.py \in {"int", "bool"} -> [exc |-> "", v |-> PyInt(v.n)]
      [] v.py = "float" ->
            [exc |-> "", v |-> PyInt((IF v.n < 0 THEN -1 ELSE 1) * (Abs(v.n) \div v.d))]
      [] v.py = "str" /\ v.s = "7" -> [exc |-> "", v |-> PyInt(7)]
      [] v.py = "str" /\ v.s # "7" -> [exc |-> "ValueError", v |-> PyNone]
      [] OTHER -> [exc |-> "TypeError", v |-> PyNone]

FloatOf(v) ==
    CASE v.py \in {"int", "bool", "float"} -> [exc |-> "", v |-> PyFloat(v.n, v.d)]
      [] v.py = "str" /\ v.s = "7" -> [exc |-> "", v |-> PyFloat(7, 1)]
      [] v.py = "str" /\ v.s # "7" -> [exc |-> "ValueError", v |-> PyNone]
      [] OTHER -> [exc |-> "TypeError", v |-> PyNone]

\* FunctionReturnFlowBreaker.get_payload; a type that is none of the four
\* makes it return None, which the caller cannot unpack
GetPayload(return_type, return_value) ==
    CASE return_type = "int" -> IntOf(return_value)
      [] return_type = "float" -> FloatOf(return_value)
      [] return_type = "char" -> EvalValue(return_value)
      [] return_type = "bool" ->
            [exc |-> "",
             v |-> PyBool(return_value.py = "str" /\ return_value.s = "true")]
      [] OTHER -> [exc |-> "TypeError", v |-> PyNone]

\* the value bound to a parameter: _vd computed from the argument's type
\* _ts and value _vs, the parameter's type _td and the argument node
ArgumentValue(ts, td, vs, argument) ==
    IF ts # td \/ ts \notin {"int", "float", "char", "bool"}
    THEN [exc |-> "RuntimeError", v |-> PyNone]
    ELSE CASE ts = "int" -> IntOf(vs)
           [] ts = "float" -> FloatOf(vs)
           [] ts = "char" -> EvalValue(vs)
           [] ts = "bool" ->
                 IF ~ HasValueAttribute(argument)
                 THEN [exc |-> "AttributeError", v |-> PyNone]
                 ELSE [exc |-> "", v |-> PyBool(ValueAttributeIsTrue(argument))]

\* "for parameter in fd.fn_parameters.parameters_list" from index i
DefineParameters(parameters, i, new, st) ==
    IF i > Len(parameters) THEN RetNone(st)
    ELSE LET parameter == parameters[i]
             r == IF parameter.initializer # NoneNode
                  THEN Unpack(Interp(parameter.initializer, new, st))
                  ELSE IF ~ HasDefaultTypeValue(parameter.type.name)
                       THEN Raise("KeyError", st)
                       ELSE Tuple(parameter.type.name,
                                  DefaultTypeValue(parameter.type.name), st)
         IN IF r.oc = "raise" THEN r
            ELSE LET d == Define(r.st, new, parameter.name, Binding("var", r.t, r.v))
                 IN IF d.oc = "raise" THEN d
                    ELSE DefineParameters(parameters, i + 1, new, d.st)

\* "for counter, argument in enumerate(arguments_list)" from index i;
\* the argument is interpreted in the caller's context save_current_context
BindArguments(parameters, arguments, i, caller, new, st) ==
    IF i > Len(arguments) THEN RetNone(st)
    ELSE LET r == Unpack(Interp(arguments[i], caller, st))
         IN IF r.oc = "raise" THEN r
            ELSE LET b == Lookup(r.st.heap, new, parameters[i].name).b
                     a == ArgumentValue(r.t, b.type, r.v, arguments[i])
                 IN IF a.exc # "" THEN Raise(a.exc, r.st)
                    ELSE BindArguments(parameters, arguments, i + 1, caller, new,
                            [r.st EXCEPT !.heap =
                                Assign(r.st.heap, new, parameters[i].name,
                                       Binding(b.kind, b.type, a.v)).heap])

\* "for statement in fd.fn_code_block.statements" from index i
FunctionBody(statements, i, new, st) ==
    IF i > Len(statements) THEN RetNone(st)
    ELSE IF statements[i].k = "FunctionReturn"
    THEN Unpack(Interp(statements[i].expression, new, st))
    ELSE LET r == Interp(statements[i], new, st)
         IN IF r.oc = "raise"
            THEN IF r.exc = "FunctionReturnFlowBreaker"
                 THEN LET p == GetPayload(r.t, r.v)
                      IN IF p.exc # "" THEN Raise(p.exc, r.st)
                         ELSE Tuple(r.t, p.v, r.st)
                 ELSE r
            ELSE FunctionBody(statements, i + 1, new, r.st)

InterpFunctionApplication(node, c, st) ==
    LET f == Lookup(st.heap, c, node.name.value.str)
    IN IF ~ f.found THEN Raise("RuntimeError", st)
       ELSE LET s1 == SpawnChildContext(st, c)
                new == NewContext(s1)
            IN IF f.b.value.py # "node" THEN Raise("AssertionError", s1)
               ELSE LET fd == f.b.value.node
                        p == DefineParameters(fd.fn_parameters, 1, new, s1)
                    IN IF p.oc = "raise" THEN p
                       ELSE IF Len(fd.fn_parameters) # Len(node.fn_arguments)
                            THEN Raise("RuntimeError", p.st)
                       ELSE LET a == BindArguments(fd.fn_parameters, node.fn_arguments,
                                                   1, c, new, p.st)
                            IN IF a.oc = "raise" THEN a
                               ELSE FunctionBody(fd.fn_code_block.statements, 1, new, a.st)

InterpFunctionReturn(node, c, st) ==
    LET r == Unpack(Interp(node.expression, c, st))
    IN IF r.oc = "raise" THEN r ELSE RaiseReturn(r.t, r.v, r.st)

Interp(node, c, st) ==
    CASE node.k = "Integer" -> Tuple("int", PyInt(IntOfLexeme(node.value.str)), st)
      [] node.k = "Float" -> Tuple("float", FloatOfLexeme(node.value.str), st)
      [] node.k = "PrintStatement" -> InterpPrintStatement(node, c, st)
      [] node.k = "Boolean" -> Tuple("bool", PyBool(node.value.str = "true"), st)
      [] node.k = "Char" -> Tuple("char", PyStr(EvalCharLexeme(node.value.str)), st)
      [] node.k = "Name" -> InterpName(node, c, st)
      [] node.k = "BinOp" -> InterpBinOp(node, c, st)
      [] node.k = "RelOp" -> InterpRelOp(node, c, st)
      [] node.k = "UnaryOp" -> InterpUnaryOp(node, c, st)
      [] node.k = "Grouped" -> Interp(node.value, c, st)
      [] node.k = "ConstDeclaration" -> InterpConstDeclaration(node, c, st)
      [] node.k = "VarDeclaration" -> InterpVarDeclaration(node, c, st)
      [] node.k = "FunctionDefinition" -> InterpFunctionDefinition(node, c, st)
      [] node.k = "FunctionApplication" -> InterpFunctionApplication(node, c, st)
      [] node.k = "FunctionReturn" -> InterpFunctionReturn(node, c, st)
      [] node.k = "LogicalOp" -> InterpLogicalOp(node, c, st)
      [] node.k = "Assignment" -> InterpAssignment(node, c, st)
      [] node.k = "IfStatement" -> InterpIfStatement(node, c, st)
      [] node.k = "ExprStatement" -> Interp(node.value, c, st)
      [] node.k = "WhileStatement" -> WhileLoop(node, c, st, MaxIter)
      [] node.k = "BreakStatement" -> Raise("Break", st)
      [] node.k = "ContinueStatement" -> Raise("Continue", st)
      [] node.k = "Compound" -> InterpCompound(node, c, st)
      [] node.k = "Block" -> InterpBlock(node, c, st)
      [] OTHER -> Raise("RuntimeError", st)

(***************************************************************************)
(* The programs interpret_program is run on.                               *)
(***************************************************************************)
TypeNames == {"int", "float", "bool", "char"}

IntLit(n) == Integer(ToString(n))

\* literals of each type
Literals(t) ==
    CASE t = "int" -> {IntLit(n) : n \in 1..MaxK}
      [] t = "float" -> {Float("0.5"), Float("2.0")}
      [] t = "bool" -> {Boolean("true"), Boolean("false")}
      [] t = "char" -> {Char(CharLexeme(ch)) : ch \in Chars}

\* func name() type { body }
Func(name, parameters, type, body) ==
    FunctionDefinition(Name(name), parameters, Type(type), Block(body))

Param(name, type) == FunctionParameter(name, Type(type), NoneNode)

Call(name, arguments) == FunctionApplication(Name(name), arguments)

Var(name, initializer) == VarDeclaration(name, NoneNode, initializer)

If(test, consequence) == IfStatement(test, Block(consequence), NoneNode)

\* x = x + n
Increment(name, n) == Assignment(Name(name), BinOp("+", Name(name), IntLit(n)))

\* [var x = g;] func f() int { return x; } and a call of f from a nested
\* scope that declares its own x = l
C1Params ==
    {q \in [nest : {"if", "compound", "function"}, shadow : BOOLEAN,
            g : 1..MaxK, l : 1..MaxK] : q.g # q.l}

C1Program(q) ==
    Block((IF q.shadow THEN <<Var("x", IntLit(q.g))>> ELSE <<>>)
          \o <<Func("f", <<>>, "int", <<FunctionReturn(Name("x"))>>)>>
          \o CASE q.nest = "if" ->
                    <<If(Boolean("true"),
                         <<Var("x", IntLit(q.l)), PrintStatement(Call("f", <<>>))>>)>>
               [] q.nest = "compound" ->
                    <<PrintStatement(Compound(<<Var("x", IntLit(q.l)), Call("f", <<>>)>>))>>
               [] q.nest = "function" ->
                    <<Func("g", <<>>, "int",
                           <<Var("x", IntLit(q.l)), FunctionReturn(Call("f", <<>>))>>),
                      PrintStatement(Call("g", <<>>))>>)

\* var x = old; x = e; print x = e; print x;
C2Params ==
    UNION {[t : {t}, old : Literals(t),
            e : Literals(t) \cup (IF t = "int"
                                  THEN {BinOp("+", IntLit(2), IntLit(3))} ELSE {})]
           : t \in TypeNames}

C2Program(q) ==
    Block(<<Var("x", q.old),
            ExprStatement(Assignment(Name("x"), q.e)),
            Assignment(Name("x"), q.old),
            PrintStatement(Assignment(Name("x"), q.e)),
            PrintStatement(Name("x"))>>)

\* func f() t { ... return e; ... }  f();
C3Params ==
    UNION {[t : {t}, e : Literals(t), nest : {"direct", "if", "while", "ifwhile"}]
           : t \in TypeNames}

C3Body(nest, e) ==
    CASE nest = "direct" -> <<FunctionReturn(e)>>
      [] nest = "if" -> <<If(Boolean("true"), <<FunctionReturn(e)>>)>>
      [] nest = "while" -> <<WhileStatement(Boolean("true"), Block(<<FunctionReturn(e)>>))>>
      [] nest = "ifwhile" ->
            <<WhileStatement(Boolean("true"),
                             Block(<<If(Boolean("true"), <<FunctionReturn(e)>>)>>))>>

C3Program(q) ==
    Block(<<Func("f", <<>>, q.t, C3Body(q.nest, q.e)),
            ExprStatement(Call("f", <<>>)),
            PrintStatement(Call("f", <<>>))>>)

\* func f(p t) t { return p; }  var b = lit;  f(argument);
\* the argument is a literal, the name b, or a compound expression
C4Arguments(t, lit) ==
    {lit, Name("b"), Grouped(lit)}
    \cup (IF t = "int" THEN {BinOp("+", lit, IntLit(1))} ELSE {})
    \cup (IF t = "bool"
          THEN {RelOp("==", lit, Boolean("true")), UnaryOp("!", lit),
                LogicalOp("&&", lit, Boolean("true"))}
          ELSE {})

C4Params ==
    UNION {UNION {[t : {t}, lit : {lit}, arg : C4Arguments(t, lit)] : lit \in Literals(t)}
           : t \in TypeNames}

C4Program(q) ==
    Block(<<Func("f", <<Param("p", q.t)>>, q.t, <<FunctionReturn(Name("p"))>>),
            Var("b", q.lit),
            ExprStatement(Call("f", <<q.arg>>))>>)

\* { print n; x = x + n; x; }
Noisy(n) ==
    Compound(<<PrintStatement(IntLit(n)), Increment("x", n), Name("x")>>)

\* func h(a int, b int) int { return a - b; }  var x = 0;
\* h({ print m; x = x + m; x; }, { print n; x = x + n; x; });
C4OrderParams == {q \in [m : 1..MaxK, n : 1..MaxK] : q.m # q.n}

C4OrderProgram(q) ==
    Block(<<Func("h", <<Param("a", "int"), Param("b", "int")>>, "int",
                 <<FunctionReturn(BinOp("-", Name("a"), Name("b")))>>),
            Var("x", IntLit(0)),
            ExprStatement(Call("h", <<Noisy(q.m), Noisy(q.n)>>))>>)

\* func f() int { body without an executed return }  and a use of f()
C5Params ==
    [body : {"empty", "print", "if"}, use : {"statement", "print", "var"}]

C5Program(q) ==
    Block(<<Func("f", <<>>, "int",
                 CASE q.body = "empty" -> <<>>
                   [] q.body = "print" -> <<PrintStatement(IntLit(1))>>
                   [] q.body = "if" ->
                         <<If(Boolean("false"), <<FunctionReturn(IntLit(1))>>)>>),
            CASE q.use = "statement" -> ExprStatement(Call("f", <<>>))
              [] q.use = "print" -> PrintStatement(Call("f", <<>>))
              [] q.use = "var" -> Var("y", Call("f", <<>>)),
            PrintStatement(IntLit(2))>>)

\* model6 of test_models.py, for a threshold k
Model6(k) ==
    Block(<<Var("n", IntLit(0)),
            WhileStatement(
                Boolean("true"),
                Block(<<IfStatement(RelOp("==", Name("n"), IntLit(k)),
                                    Block(<<PrintStatement(Name("n")), BreakStatement>>),
                                    Block(<<Increment("n", 1), ContinueStatement>>)),
                        Assignment(Name("n"), BinOp("-", Name("n"), IntLit(1)))>>))>>)

\* var n = 0; while n < MaxK { n = n + 1; if n == k { break/continue; } print n; }
\* print 0;
C6Params == [exit : {"break", "continue"}, k : 1..MaxK]

C6Program(q) ==
    Block(<<Var("n", IntLit(0)),
            WhileStatement(
                RelOp("<", Name("n"), IntLit(MaxK)),
                Block(<<Increment("n", 1),
                        If(RelOp("==", Name("n"), IntLit(q.k)),
                           <<IF q.exit = "break" THEN BreakStatement
                             ELSE ContinueStatement>>),
                        PrintStatement(Name("n"))>>)),
            PrintStatement(IntLit(0))>>)

\* var i = 0; var j = 0;
\* while i < 2 { i = i + 1; j = 0;
\*               while j < MaxK { j = j + 1; if j == k { break/continue; } print j; }
\*               print 0; }
\* print 9;
C6NestedProgram(q) ==
    Block(<<Var("i", IntLit(0)),
            Var("j", IntLit(0)),
            WhileStatement(
                RelOp("<", Name("i"), IntLit(2)),
                Block(<<Increment("i", 1),
                        Assignment(Name("j"), IntLit(0)),
                        WhileStatement(
                            RelOp("<", Name("j"), IntLit(MaxK)),
                            Block(<<Increment("j", 1),
                                    If(RelOp("==", Name("j"), IntLit(q.k)),
                                       <<IF q.exit = "break" THEN BreakStatement
                                         ELSE ContinueStatement>>),
                                    PrintStatement(Name("j"))>>)),
                        PrintStatement(IntLit(0))>>)),
            PrintStatement(IntLit(9))>>)

\* a statement that raises the given exception or leaves by a return
Raiser(what) ==
    CASE what = "Break" -> BreakStatement
      [] what = "Continue" -> ContinueStatement
      [] what = "FunctionReturnFlowBreaker" -> FunctionReturn(IntLit(1))
      [] what = "RuntimeError" -> PrintStatement(Name("undefined"))
      [] what = "ZeroDivisionError" -> PrintStatement(BinOp("/", IntLit(1), IntLit(0)))

Exits == {"Break", "Continue", "FunctionReturnFlowBreaker", "RuntimeError",
          "ZeroDivisionError"}

\* at "loop": func f() int { var n = 0; while n < 2 { n = n + 1; raiser; print n; }
\*                           print 0; return 2; }  f();
\* at "call": func f() int { if true { raiser; } print 0; return 2; }
\*            var n = 0; while n < 2 { n = n + 1; f(); print n; }
\* at "top":  func f() int { if true { raiser; } print 0; return 2; }  f();
C7Params == [at : {"loop", "call", "top"}, what : Exits]

C7Program(q) ==
    CASE q.at = "loop" ->
            Block(<<Func("f", <<>>, "int",
                         <<Var("n", IntLit(0)),
                           WhileStatement(
                               RelOp("<", Name("n"), IntLit(2)),
                               Block(<<Increment("n", 1), Raiser(q.what),
                                       PrintStatement(Name("n"))>>)),
                           PrintStatement(IntLit(0)),
                           FunctionReturn(IntLit(2))>>),
                    ExprStatement(Call("f", <<>>))>>)
      [] q.at = "call" ->
            Block(<<Func("f", <<>>, "int",
                         <<If(Boolean("true"), <<Raiser(q.what)>>),
                           PrintStatement(IntLit(0)),
                           FunctionReturn(IntLit(2))>>),
                    Var("n", IntLit(0)),
                    WhileStatement(
                        RelOp("<", Name("n"), IntLit(2)),
                        Block(<<Increment("n", 1), ExprStatement(Call("f", <<>>)),
                                PrintStatement(Name("n"))>>))>>)
      [] q.at = "top" ->
            Block(<<Func("f", <<>>, "int",
                         <<If(Boolean("true"), <<Raiser(q.what)>>),
                           PrintStatement(IntLit(0)),
                           FunctionReturn(IntLit(2))>>),
                    ExprStatement(Call("f", <<>>))>>)

\* var x = 0; func s() bool { print 7; x = x + 1; return r; }
\* l op right;   where right is s(), ({ print 7; x = x + 1; r; }) or x = x + 1 == 1
C8Params ==
    [op : {"&&", "||"}, l : {"true", "false"}, r : {"true", "false"},
     right : {"call", "compound", "print"}]

C8Right(q) ==
    CASE q.right = "call" -> Call("s", <<>>)
      [] q.right = "compound" ->
            Compound(<<Increment("x", 1), Boolean(q.r)>>)
      [] q.right = "print" ->
            Compound(<<PrintStatement(IntLit(7)), Boolean(q.r)>>)

C8Program(q) ==
    Block(<<Var("x", IntLit(0)),
            Func("s", <<>>, "bool",
                 <<PrintStatement(IntLit(7)), Increment("x", 1),
                   FunctionReturn(Boolean(q.r))>>),
            ExprStatement(LogicalOp(q.op, Boolean(q.l), C8Right(q)))>>)

\* const c = init; var x = 0; an assignment to c from some scope; print c;
C9Params ==
    UNION {[t : {t}, init : Literals(t), new : Literals(t),
            from : {"top", "if", "compound", "function", "while"}]
           : t \in TypeNames}

C9Attempt(q) ==
    LET a == Assignment(Name("c"), q.new)
    IN CASE q.from = "top" -> <<ExprStatement(a)>>
         [] q.from = "if" -> <<If(Boolean("true"), <<a>>)>>
         [] q.from = "compound" -> <<PrintStatement(Compound(<<a, Name("c")>>))>>
         [] q.from = "function" ->
               <<Func("f", <<>>, q.t, <<a, FunctionReturn(Name("c"))>>),
                 ExprStatement(Call("f", <<>>))>>
         [] q.from = "while" -> <<WhileStatement(Boolean("true"), Block(<<a>>))>>

C9Program(q) ==
    Block(<<ConstDeclaration("c", NoneNode, q.init), Var("x", IntLit(0))>>
          \o C9Attempt(q) \o <<PrintStatement(Name("c"))>>)

\* print l / 0;   print l / r;
C10Params == [l : 0..MaxK, r : 0..1, t : {"int", "float"}]

C10Operand(t, n) == IF t = "int" THEN IntLit(n) ELSE Float(ToString(n) \o ".0")

C10Program(q) ==
    Block(<<PrintStatement(BinOp("/", C10Operand(q.t, q.l), C10Operand(q.t, q.r))),
            PrintStatement(IntLit(1))>>)

\* var i = 0; while i < n { var t = 1; i = i + 1; } print i;
\* (or const t = 1): a declaration in the body of a loop of n iterations
C11Params == [decl : {"var", "const"}, n : 1..2]

C11Program(q) ==
    Block(<<Var("i", IntLit(0)),
            WhileStatement(
                RelOp("<", Name("i"), IntLit(q.n)),
                Block(<<IF q.decl = "var" THEN Var("t", IntLit(1))
                        ELSE ConstDeclaration("t", NoneNode, IntLit(1)),
                        Increment("i", 1)>>)),
            PrintStatement(Name("i"))>>)

\* print op e; for a literal e of type t
C25Params == [op : {"-", "+", "!"}, t : {"int", "float", "bool", "char"}]

C25Program(q) ==
    Block(<<PrintStatement(UnaryOp(q.op, CHOOSE e \in Literals(q.t) : TRUE))>>)

\* print 1; { var x = 2; x = v; { y = v; } } ... : assignments issued from
\* nested scopes to a name of the scope itself, of an enclosing scope, or of
\* no scope
C26Params == [name : {"x", "y", "z", "w"}, v : 1..2]

C26Program(q) ==
    Block(<<Var("x", IntLit(0)),
            If(Boolean("true"),
               <<Var("y", IntLit(0)),
                 If(Boolean("true"),
                    <<Var("z", IntLit(0)),
                      ExprStatement(Assignment(Name(q.name), IntLit(q.v)))>>)>>),
            PrintStatement(Name("x"))>>)

Programs ==
    {C1Program(q) : q \in C1Params} \cup {C2Program(q) : q \in C2Params}
    \cup {C3Program(q) : q \in C3Params} \cup {C4Program(q) : q \in C4Params}
    \cup {C4OrderProgram(q) : q \in C4OrderParams}
    \cup {C5Program(q) : q \in C5Params} \cup {Model6(k) : k \in 1..MaxK}
    \cup {C6Program(q) : q \in C6Params} \cup {C6NestedProgram(q) : q \in C6Params}
    \cup {C7Program(q) : q \in C7Params}
    \cup {C8Program(q) : q \in C8Params} \cup {C9Program(q) : q \in C9Params}
    \cup {C10Program(q) : q \in C10Params} \cup {C11Program(q) : q \in C11Params}
    \cup {C25Program(q) : q \in C25Params} \cup {C26Program(q) : q \in C26Params}
    \cup {Block(<<>>)}

(***************************************************************************)
(* Source text (Program.source) is a string.  Python indexes it from 0:    *)
(* text[n] and the clamped slice text[a:b].                                *)
(***************************************************************************)
Min(a, b) == IF a < b THEN a ELSE b

TextAt(text, n) == SubSeq(text, n + 1, n + 1)

Slice(text, a, b) ==
    IF a < Min(b, Len(text)) THEN SubSeq(text, a + 1, Min(b, Len(text))) ELSE ""

\* str.isdigit, str.isalpha, str.isalnum, str.isspace on the characters of
\* the model
Digits == {"0", "1", "2", "3", "4", "5", "6", "7", "8", "9"}

Letters ==
    {"a", "b", "c", "d", "e", "f", "g", "h", "i", "j", "k", "l", "m",
     "n", "o", "p", "q", "r", "s", "t", "u", "v", "w", "x", "y", "z",
     "A", "B", "C", "D", "E", "F", "G", "H", "I", "J", "K", "L", "M",
     "N", "O", "P", "Q", "R", "S", "T", "U", "V", "W", "X", "Y", "Z"}

IsDigit(ch) == ch \in Digits
IsAlpha(ch) == ch \in Letters
IsAlnum(ch) == ch \in Letters \cup Digits
IsSpace(ch) == ch \in {" ", "\t", "\n", "\r"}

\* repr(s) of a str: quoted with ', or with " when the text holds a ' and
\* no "; backslash and control characters escaped
RECURSIVE Escaped(_, _)
Escaped(s, quote) ==
    IF s = "" THEN ""
    ELSE LET ch == TextAt(s, 0)
         IN (CASE ch = "\\" -> "\\\\"
               [] ch = "\n" -> "\\n"
               [] ch = "\t" -> "\\t"
               [] ch = "\r" -> "\\r"
               [] ch = quote -> "\\" \o quote
               [] OTHER -> ch) \o Escaped(Slice(s, 1, Len(s)), quote)

RECURSIVE Contains(_, _)
Contains(s, ch) ==
    s # "" /\ (TextAt(s, 0) = ch \/ Contains(Slice(s, 1, Len(s)), ch))

PyRepr(s) ==
    LET quote == IF Contains(s, "'") /\ ~ Contains(s, "\"") THEN "\"" ELSE "'"
    IN quote \o Escaped(s, quote) \o quote

(***************************************************************************)
(* tokenize.py                                                             *)
(***************************************************************************)
Token(type, value, lineno, index) ==
    [type |-> type, value |-> value, lineno |-> lineno, index |-> index]

\* Token.__repr__
TokenRepr(tok) ==
    "Token(" \o PyRepr(tok.type) \o ", " \o PyRepr(tok.value) \o ", "
        \o ToString(tok.lineno) \o ", " \o ToString(tok.index) \o ")"

lang_literal_tokens ==
    ("+" :> "PLUS") @@ ("-" :> "MINUS") @@ ("*" :> "TIMES") @@ ("/" :> "DIVIDE")
    @@ (";" :> "SEMI") @@ ("," :> "COMMA") @@ ("(" :> "LPAREN") @@ (")" :> "RPAREN")
    @@ ("{" :> "LBRACE") @@ ("}" :> "RBRACE") @@ ("<" :> "LT") @@ (">" :> "GT")
    @@ ("=" :> "ASSIGN") @@ ("==" :> "EQ") @@ (">=" :> "GE") @@ ("<=" :> "LE")
    @@ ("!=" :> "NE") @@ ("&&" :> "LAND") @@ ("||" :> "LOR") @@ ("!" :> "LNOT")

lang_reserved_words ==
    {"const", "var", "print", "break", "continue", "if",
     "else", "while", "func", "return", "true", "false"}

\* check_str.upper() of a reserved word
Upper(word) ==
    CASE word = "const" -> "CONST"
      [] word = "var" -> "VAR"
      [] word = "print" -> "PRINT"
      [] word = "break" -> "BREAK"
      [] word = "continue" -> "CONTINUE"
      [] word = "if" -> "IF"
      [] word = "else" -> "ELSE"
      [] word = "while" -> "WHILE"
      [] word = "func" -> "FUNC"
      [] word = "return" -> "RETURN"
      [] word = "true" -> "TRUE"
      [] word = "false" -> "FALSE"

\* "while n < len(text) and text[n].isdigit(): n += 1" and its like
RECURSIVE SkipDigits(_, _)
SkipDigits(text, n) ==
    IF n < Len(text) /\ IsDigit(TextAt(text, n)) THEN SkipDigits(text, n + 1) ELSE n

RECURSIVE SkipWord(_, _)
SkipWord(text, n) ==
    IF n < Len(text) /\ (IsAlnum(TextAt(text, n)) \/ TextAt(text, n) = "_")
    THEN SkipWord(text, n + 1) ELSE n

RECURSIVE SkipTo(_, _, _)
SkipTo(text, n, stop) ==
    IF n < Len(text) /\ TextAt(text, n) # stop THEN SkipTo(text, n + 1, stop) ELSE n

\* the loop of a block comment: up to "*/" or the end of the text, counting
\* the lines
RECURSIVE SkipBlockComment(_, _, _)
SkipBlockComment(text, n, lineno) ==
    IF n < Len(text) /\ Slice(text, n, n + 2) # "*/"
    THEN SkipBlockComment(text, n + 1,
                          IF TextAt(text, n) = "\n" THEN lineno + 1 ELSE lineno)
    ELSE [n |-> n, lineno |-> lineno]

\* the generator object: where the scan stands, and whether it has ended
\* (it ran past the EOF token or raised)
Generator(n, lineno) == [n |-> n, lineno |-> lineno, done |-> FALSE]
Exhausted(g) == [g EXCEPT !.done = TRUE]

\* what next(generator) does: yields a token, raises, or stops; printed is
\* the text written to standard output on the way
Yields(tok, g, printed) ==
    [oc |-> "yield", exc |-> "", tok |-> tok, g |-> g, printed |-> printed]
Raises(exc, g, printed) ==
    [oc |-> "raise", exc |-> exc, tok |-> Token("", "", 0, 0), g |-> Exhausted(g),
     printed |-> printed]

\* the loop "while n < len(text)" of tokenize, run up to the next yield
RECURSIVE tokenize(_, _, _, _)
tokenize(text, n, lineno, printed) ==
    IF n >= Len(text)
    THEN Yields(Token("EOF", "EOF", lineno, n), Exhausted(Generator(n, lineno)), printed)
    ELSE LET ch == TextAt(text, n)
             two == Slice(text, n, n + 2)
         IN IF ch = "\n" THEN tokenize(text, n + 1, lineno + 1, printed)
            ELSE IF IsSpace(ch)
            THEN \* text[n] after "n += 1": past the end for a final blank
                 IF n + 1 >= Len(text)
                 THEN Raises("IndexError", Generator(n + 1, lineno), printed)
                 ELSE tokenize(text, n + 1,
                           IF TextAt(text, n + 1) = "\n" THEN lineno + 1 ELSE lineno,
                           printed)
            ELSE IF two = "/*"
            THEN LET e == SkipBlockComment(text, n, lineno)
                 IN tokenize(text, e.n + 2, e.lineno, printed)
            ELSE IF two = "//" THEN tokenize(text, SkipTo(text, n, "\n"), lineno, printed)
            ELSE IF two \in DOMAIN lang_literal_tokens
            THEN Yields(Token(lang_literal_tokens[two], two, lineno, n),
                        Generator(n + 2, lineno), printed)
            ELSE IF ch \in DOMAIN lang_literal_tokens
            THEN Yields(Token(lang_literal_tokens[ch], ch, lineno, n),
                        Generator(n + 1, lineno), printed)
            ELSE IF IsDigit(ch)
            THEN LET m == SkipDigits(text, n)
                 IN IF m < Len(text) /\ TextAt(text, m) = "."
                    THEN LET e == SkipDigits(text, m + 1)
                         IN Yields(Token("FLOAT", Slice(text, n, e), lineno, n),
                                   Generator(e, lineno), printed)
                    ELSE Yields(Token("INTEGER", Slice(text, n, m), lineno, n),
                                Generator(m, lineno), printed)
            ELSE IF ch = "'"
            THEN LET m == SkipTo(text, n + 1, "'")
                 IN Yields(Token("CHAR", Slice(text, n, m + 1), lineno, n),
                           Generator(m + 1, lineno), printed)
            ELSE IF IsAlpha(ch) \/ ch = "_"
            THEN LET m == SkipWord(text, n)
                     check_str == Slice(text, n, m)
                 IN IF check_str \in lang_reserved_words
                    THEN Yields(Token(Upper(check_str), check_str, lineno, n),
                                Generator(m, lineno), printed)
                    ELSE Yields(Token("NAME", check_str, lineno, n),
                                Generator(m, lineno), printed)
            ELSE tokenize(text, n + 1, lineno,
                      printed \o ToString(lineno) \o ": Illegal character "
                          \o PyRepr(ch) \o "\n")

\* next(tokens)
NextToken(text, g) ==
    IF g.done THEN [oc |-> "stop", exc |-> "StopIteration", tok |-> Token("", "", 0, 0),
                    g |-> g, printed |-> ""]
    ELSE tokenize(text, g.n, g.lineno, "")

(***************************************************************************)
(* __repr__ of the model objects (src/wabbit/model.py), as print() and     *)
(* f-strings write them.  A Block has no __repr__: Python writes the       *)
(* object's address, which is not modelled.                                *)
(***************************************************************************)
RECURSIVE Repr(_)
RECURSIVE ReprList(_, _, _)
\* sep.join(str(x) for x in list), from element i on
ReprList(list, i, sep) ==
    IF i > Len(list) THEN ""
    ELSE Repr(list[i]) \o (IF i < Len(list) THEN sep ELSE "")
             \o ReprList(list, i + 1, sep)

Repr(node) ==
    CASE node.k = "NoneType" -> "None"
      [] node.k \in {"Integer", "Float", "Char", "Boolean", "Name"} ->
            node.k \o "(" \o node.value.str \o ")"
      [] node.k \in {"BinOp", "RelOp", "LogicalOp"} ->
            node.k \o "(" \o node.op \o ", " \o Repr(node.left) \o ", "
                \o Repr(node.right) \o ")"
      [] node.k = "UnaryOp" -> "UnaryOp(" \o node.op \o ", " \o Repr(node.value) \o ")"
      [] node.k \in {"Grouped", "ExprStatement", "PrintStatement"} ->
            node.k \o "(" \o Repr(node.value) \o ")"
      [] node.k = "Assignment" ->
            "Assignment(" \o Repr(node.location) \o ", " \o Repr(node.value) \o ")"
      [] node.k = "Compound" ->
            "Compound([" \o ReprList(node.statements, 1, ", ") \o "])"
      [] node.k = "IfStatement" ->
            "IfStatement(" \o Repr(node.test) \o ", " \o Repr(node.consequence)
                \o ", " \o Repr(node.alternative) \o ")"
      [] node.k = "WhileStatement" ->
            "WhileStatement(" \o Repr(node.test) \o ", " \o Repr(node.body) \o ")"
      [] node.k \in {"ConstDeclaration", "VarDeclaration"} ->
            node.k \o "(" \o node.name \o ", " \o Repr(node.type) \o ", "
                \o Repr(node.initializer) \o ")"
      [] node.k \in {"BreakStatement", "ContinueStatement"} -> node.k \o "()"
      [] node.k = "Block" -> "<wabbit.model.Block object>"
      [] node.k = "Type" -> "Type(" \o node.name \o ")"
      [] node.k = "FunctionDefinition" ->
            "FunctionDefinition(" \o Repr(node.name) \o " ("
                \o ReprList(node.fn_parameters, 1, ",") \o ") "
                \o Repr(node.fn_return_type) \o " => ["
                \o ReprList(node.fn_code_block.statements, 1, ", ") \o "])"
      [] node.k = "FunctionParameter" ->
            "FunctionParameter(" \o node.name \o " " \o Repr(node.type) \o ")"
      [] node.k = "FunctionReturn" -> "FunctionReturn(" \o Repr(node.expression) \o ")"
      [] node.k = "FunctionApplication" ->
            "FunctionApplication" \o Repr(node.name) \o " (FunctionArguments("
                \o ReprList(node.fn_arguments, 1, ",") \o "))"

(***************************************************************************)
(* parse.py: class TokenStream.  A stream is the generator, the lookahead  *)
(* token (NoToken for None); the parser also carries the module's          *)
(* SYMBOL_TABLE and the text it has written to standard output.            *)
(***************************************************************************)
NoToken == Token("", "", 0, 0)

TokenStream(g, table, printed) ==
    [g |-> g, lookahead |-> NoToken, table |-> table, out |-> printed]

\* what a call of a parser function or of a TokenStream method yields: a
\* model object or a token (NoToken for None), or an exception
Parsed(node, ps) == [oc |-> "ok", exc |-> "", node |-> node, tok |-> NoToken, ps |-> ps]
Taken(tok, ps) == [oc |-> "ok", exc |-> "", node |-> NoneNode, tok |-> tok, ps |-> ps]
Fails(exc, ps) == [oc |-> "raise", exc |-> exc, node |-> NoneNode, tok |-> NoToken, ps |-> ps]

Printed(ps, line) == [ps EXCEPT !.out = @ \o line \o "\n"]

\* "r = f(stream)" followed by the rest of the function: an exception of
\* the call leaves the function, otherwise the rest runs with the result
Then(r, rest(_)) == IF r.oc = "raise" THEN Fails(r.exc, r.ps) ELSE rest(r)

\* the stream once next(self.tokens) has come back with r
Fetched(ps, r) ==
    LET after == [ps EXCEPT !.g = r.g, !.out = @ \o r.printed]
    IN IF r.oc = "yield" THEN Taken(r.tok, [after EXCEPT !.lookahead = r.tok])
       ELSE Fails(r.exc, after)

\* the first half of peek: "if self.lookahead is None:
\* self.lookahead = next(self.tokens)"
Lookahead(text, ps) ==
    IF ps.lookahead # NoToken THEN Taken(ps.lookahead, ps)
    ELSE Fetched(ps, NextToken(text, ps.g))

\* peek(type) for one type or, for a chain "peek(a) or peek(b)", a set
peek(text, ps, types) ==
    Then(Lookahead(text, ps), LAMBDA la :
    [oc |-> "ok", exc |-> "", b |-> la.tok.type \in types, ps |-> la.ps])

\* accept that drops the lookahead when its type is not the type asked for
accept_dropping(text, ps, types) ==
    Then(Lookahead(text, ps), LAMBDA la :
    IF la.tok.type \in types
    THEN Taken(la.tok, [la.ps EXCEPT !.lookahead = NoToken])
    ELSE Taken(NoToken, [la.ps EXCEPT !.lookahead = NoToken]))

\* accept(type), and the chain "accept(a) or accept(b)": the token, consumed,
\* or None
accept(text, ps, types) ==
    Then(Lookahead(text, ps), LAMBDA la :
    IF la.tok.type \in types
    THEN Taken(la.tok, [la.ps EXCEPT !.lookahead = NoToken])
    ELSE Taken(NoToken, la.ps))

expect(text, ps, type) ==
    Then(Lookahead(text, ps), LAMBDA la :
    IF la.tok.type = type
    THEN Taken(la.tok, [la.ps EXCEPT !.lookahead = NoToken])
    ELSE Fails("SyntaxError", la.ps))

(***************************************************************************)
(* parse.py: the parser functions.  text is the source the generator       *)
(* reads, ps the stream; Apply(f, text, ps) is the call f(stream).         *)
(***************************************************************************)
RECURSIVE Apply(_, _, _)
RECURSIVE parse_statements_loop(_, _, _)
RECURSIVE parse_function_parameters_loop(_, _, _)
RECURSIVE parse_function_arguments(_, _, _)
RECURSIVE parse_term_loop(_, _, _, _)
RECURSIVE parse_add_term_loop(_, _, _)
RECURSIVE parse_land_term_loop(_, _, _)
RECURSIVE parse_lor_term_loop(_, _, _)
RECURSIVE parse_compound_loop(_, _, _)

\* the loop of parse_statements, statements being the list so far
parse_statements_loop(text, ps, statements) ==
    Then(peek(text, ps, {"EOF", "RBRACE"}), LAMBDA p :
    IF p.b THEN Parsed(Block(statements), p.ps)
    ELSE Then(Apply("parse_statement", text, p.ps), LAMBDA s :
         parse_statements_loop(text, s.ps, Append(statements, s.node))))

parse_statements(text, ps) == parse_statements_loop(text, ps, <<>>)

parse_program(text, ps) ==
    Then(Apply("parse_statements", text, ps), LAMBDA model :
    Then(expect(text, model.ps, "EOF"), LAMBDA e :
    Parsed(model.node, e.ps)))

\* "break;" and "continue;"
parse_simple_statement(text, ps, type, node) ==
    Then(expect(text, ps, type), LAMBDA a :
    Then(expect(text, a.ps, "SEMI"), LAMBDA b :
    Parsed(node, b.ps)))

parse_break_statement(text, ps) ==
    parse_simple_statement(text, ps, "BREAK", BreakStatement)

parse_continue_statement(text, ps) ==
    parse_simple_statement(text, ps, "CONTINUE", ContinueStatement)

parse_print_statement(text, ps) ==
    Then(expect(text, ps, "PRINT"), LAMBDA a :
    Then(Apply("parse_expression", text, a.ps), LAMBDA value :
    Then(expect(text, value.ps, "SEMI"), LAMBDA b :
    Parsed(PrintStatement(value.node), b.ps))))

\* "{ statements }" of while, if, else and func
parse_braced_statements(text, ps) ==
    Then(expect(text, ps, "LBRACE"), LAMBDA a :
    Then(Apply("parse_statements", text, a.ps), LAMBDA body :
    Then(expect(text, body.ps, "RBRACE"), LAMBDA b :
    Parsed(body.node, b.ps))))

parse_while_statement(text, ps) ==
    Then(expect(text, ps, "WHILE"), LAMBDA a :
    Then(Apply("parse_expression", text, a.ps), LAMBDA test :
    Then(Apply("parse_braced_statements", text, test.ps), LAMBDA body :
    Parsed(WhileStatement(test.node, body.node), body.ps))))

\* "if stream.peek('NAME'): type = Type(stream.expect('NAME').value)"
parse_optional_type(text, ps) ==
    Then(accept(text, ps, {"NAME"}), LAMBDA a :
    IF a.tok # NoToken THEN Parsed(Type(a.tok.value), a.ps)
    ELSE Parsed(NoneNode, a.ps))

parse_const_statement(text, ps) ==
    Then(expect(text, ps, "CONST"), LAMBDA a :
    Then(expect(text, a.ps, "NAME"), LAMBDA name :
    Then(Apply("parse_optional_type", text, name.ps), LAMBDA const_type :
    Then(expect(text, const_type.ps, "ASSIGN"), LAMBDA b :
    Then(Apply("parse_expression", text, b.ps), LAMBDA initializer :
    Then(expect(text, initializer.ps, "SEMI"), LAMBDA c :
    Parsed(ConstDeclaration(name.tok.value, const_type.node, initializer.node),
           c.ps)))))))

\* "if stream.peek('ASSIGN'): ... initializer = parse_expression(stream)"
parse_optional_initializer(text, ps) ==
    Then(accept(text, ps, {"ASSIGN"}), LAMBDA a :
    IF a.tok # NoToken THEN Apply("parse_expression", text, a.ps)
    ELSE Parsed(NoneNode, a.ps))

parse_var_statement(text, ps) ==
    Then(expect(text, ps, "VAR"), LAMBDA a :
    Then(expect(text, a.ps, "NAME"), LAMBDA name :
    Then(Apply("parse_optional_type", text, name.ps), LAMBDA var_type :
    Then(Apply("parse_optional_initializer", text, var_type.ps), LAMBDA initializer :
    Then(expect(text, initializer.ps, "SEMI"), LAMBDA c :
    Parsed(VarDeclaration(name.tok.value, var_type.node, initializer.node),
           c.ps))))))

\* "if stream.peek('ELSE'): ... alternative = parse_statements(stream)"
parse_optional_else(text, ps) ==
    Then(accept(text, ps, {"ELSE"}), LAMBDA a :
    IF a.tok # NoToken THEN Apply("parse_braced_statements", text, a.ps)
    ELSE Parsed(NoneNode, a.ps))

parse_if_statement(text, ps) ==
    Then(expect(text, ps, "IF"), LAMBDA a :
    Then(Apply("parse_expression", text, a.ps), LAMBDA test :
    Then(Apply("parse_braced_statements", text, test.ps), LAMBDA consequence :
    Then(Apply("parse_optional_else", text, consequence.ps), LAMBDA alternative :
    Parsed(IfStatement(test.node, consequence.node, alternative.node),
           alternative.ps)))))

parse_function_parameter(text, ps) ==
    Then(expect(text, ps, "NAME"), LAMBDA name :
    Then(expect(text, name.ps, "NAME"), LAMBDA type :
    Parsed(FunctionParameter(name.tok.value, Type(type.tok.value), NoneNode),
           type.ps)))

\* after a parameter or an argument: "if not stream.peek('RPAREN'):
\* stream.expect('COMMA')"
ExpectComma(text, ps) ==
    Then(peek(text, ps, {"RPAREN"}), LAMBDA q :
    IF q.b THEN Taken(NoToken, q.ps) ELSE expect(text, q.ps, "COMMA"))

parse_function_parameters_loop(text, ps, parameters) ==
    Then(peek(text, ps, {"RPAREN"}), LAMBDA p :
    IF p.b THEN Parsed(parameters, p.ps)
    ELSE Then(Apply("parse_function_parameter", text, p.ps), LAMBDA parameter :
         Then(ExpectComma(text, parameter.ps), LAMBDA c :
         parse_function_parameters_loop(text, c.ps,
                                        Append(parameters, parameter.node)))))

parse_function_parameters(text, ps) == parse_function_parameters_loop(text, ps, <<>>)

parse_function_block(text, ps) == Apply("parse_statements", text, ps)

\* "token = stream.accept(type); if not token: raise SyntaxError(...)"
Required(r) ==
    IF r.oc = "ok" /\ r.tok = NoToken THEN Fails("SyntaxError", r.ps) ELSE r

\* the constructor of FunctionDefinition asserts that the return type is a
\* Type object
parse_function_definition(text, ps) ==
    Then(Required(accept(text, Printed(ps, "entered function definition"), {"FUNC"})),
         LAMBDA a :
    Then(Required(accept(text, a.ps, {"NAME"})), LAMBDA token :
    Then(Required(accept(text,
                         [token.ps EXCEPT !.table = (token.tok.value :> "func") @@ @],
                         {"LPAREN"})), LAMBDA b :
    Then(Apply("parse_function_parameters", text, b.ps), LAMBDA fn_parameters :
    Then(Required(accept(text, fn_parameters.ps, {"RPAREN"})), LAMBDA c :
    Then(Apply("parse_optional_type", text, c.ps), LAMBDA fn_return_type :
    Then(Apply("parse_braced_statements", text, fn_return_type.ps),
         LAMBDA fn_code_block :
    IF fn_return_type.node = NoneNode
    THEN Fails("AssertionError", fn_code_block.ps)
    ELSE Parsed(FunctionDefinition(Name(token.tok.value), fn_parameters.node,
                                   fn_return_type.node, fn_code_block.node),
                fn_code_block.ps))))))))

parse_expression_statement(text, ps) ==
    Then(Apply("parse_assignment", text, ps), LAMBDA expression :
    Then(expect(text, expression.ps, "SEMI"), LAMBDA a :
    Parsed(expression.node, a.ps)))

parse_return_statement(text, ps) ==
    Then(accept(text, ps, {"RETURN"}), LAMBDA a :
    Then(Apply("parse_expression_statement", text, a.ps), LAMBDA expression :
    Parsed(FunctionReturn(expression.node), expression.ps)))

parse_statement(text, ps) ==
    Then(Lookahead(text, ps), LAMBDA la :
    CASE la.tok.type = "BREAK" -> Apply("parse_break_statement", text, la.ps)
      [] la.tok.type = "CONTINUE" -> Apply("parse_continue_statement", text, la.ps)
      [] la.tok.type = "PRINT" -> Apply("parse_print_statement", text, la.ps)
      [] la.tok.type = "WHILE" -> Apply("parse_while_statement", text, la.ps)
      [] la.tok.type = "CONST" -> Apply("parse_const_statement", text, la.ps)
      [] la.tok.type = "VAR" -> Apply("parse_var_statement", text, la.ps)
      [] la.tok.type = "IF" -> Apply("parse_if_statement", text, la.ps)
      [] la.tok.type = "FUNC" -> Apply("parse_function_definition", text, la.ps)
      [] la.tok.type = "RETURN" -> Apply("parse_return_statement", text, la.ps)
      [] OTHER -> Apply("parse_expression_statement", text, la.ps))

parse_function_argument(text, ps) == Apply("parse_expression", text, ps)

\* the loop of parse_function_arguments
parse_function_arguments(text, ps, arguments) ==
    Then(peek(text, ps, {"RPAREN"}), LAMBDA p :
    IF p.b THEN Parsed(arguments, p.ps)
    ELSE Then(Apply("parse_function_argument", text, p.ps), LAMBDA argument :
         Then(ExpectComma(text, argument.ps), LAMBDA c :
         parse_function_arguments(text, c.ps, Append(arguments, argument.node)))))

parse_function_application(name, text, ps) ==
    Then(accept(text, ps, {"LPAREN"}), LAMBDA a :
    Then(parse_function_arguments(text, a.ps, <<>>), LAMBDA fn_arguments :
    Then(Required(accept(text, fn_arguments.ps, {"RPAREN"})), LAMBDA b :
    Parsed(FunctionApplication(Name(name), fn_arguments.node), b.ps))))

\* "print(next(stream.tokens)); raise SyntaxError('Bad factor !')", once
\* next(stream.tokens) has come back with r
BadFactorAfter(ps, r) ==
    LET after == [ps EXCEPT !.g = r.g, !.out = @ \o r.printed]
    IN IF r.oc = "yield" THEN Fails("SyntaxError", Printed(after, TokenRepr(r.tok)))
       ELSE Fails(r.exc, after)

BadFactor(text, ps) == BadFactorAfter(ps, NextToken(text, ps.g))

\* the loop of the LBRACE branch of parse_factor
parse_compound_loop(text, ps, statements) ==
    Then(peek(text, ps, {"RBRACE"}), LAMBDA p :
    IF p.b THEN Parsed(statements, p.ps)
    ELSE Then(Apply("parse_statement", text, p.ps), LAMBDA statement :
         parse_compound_loop(text, statement.ps, Append(statements, statement.node))))

\* the constructor of Compound asserts that the list is not empty
parse_compound(text, ps) ==
    Then(parse_compound_loop(text, ps, <<>>), LAMBDA statements :
    Then(accept(text, statements.ps, {"RBRACE"}), LAMBDA a :
    IF statements.node = <<>> THEN Fails("AssertionError", a.ps)
    ELSE Parsed(Compound(statements.node), a.ps)))

\* SYMBOL_TABLE = {}
NoSymbols == [name \in {} |-> ""]

\* SYMBOL_TABLE.get(name, None)
SymbolTableGet(table, name) == IF name \in DOMAIN table THEN table[name] ELSE "None"

parse_factor(text, ps) ==
    Then(Lookahead(text, ps), LAMBDA la :
    LET type == la.tok.type
        token == la.tok
        taken == [la.ps EXCEPT !.lookahead = NoToken]
    IN CASE type = "INTEGER" -> Parsed(Integer(token.value), taken)
         [] type = "FLOAT" -> Parsed(Float(token.value), taken)
         [] type = "CHAR" -> Parsed(Char(token.value), taken)
         [] type = "TRUE" -> Parsed(Boolean("true"), taken)
         [] type = "FALSE" -> Parsed(Boolean("false"), taken)
         [] type = "NAME" ->
               LET k == SymbolTableGet(taken.table, token.value)
                   noted == Printed(taken, "token -> " \o token.value \o ", " \o k)
               IN IF k = "func"
                  THEN parse_function_application(token.value, text, noted)
                  ELSE IF k # "None" THEN Fails("RuntimeError", noted)
                  ELSE Parsed(Name(token.value), noted)
         [] type \in {"MINUS", "PLUS", "LNOT"} ->
               Then(Apply("parse_factor", text, taken), LAMBDA factor :
               Parsed(UnaryOp(token.value, factor.node), factor.ps))
         [] type = "LPAREN" ->
               Then(Apply("parse_expression", text, taken), LAMBDA factor :
               Then(expect(text, factor.ps, "RPAREN"), LAMBDA a :
               Parsed(Grouped(factor.node), a.ps)))
         [] type = "LBRACE" -> Apply("parse_compound", text, taken)
         [] OTHER -> BadFactor(text, la.ps))

\* one of the two loops of parse_term: "while stream.peek(type): ..."
parse_term_loop(text, ps, factor, type) ==
    Then(accept(text, ps, {type}), LAMBDA a :
    IF a.tok = NoToken THEN Parsed(factor, a.ps)
    ELSE Then(Apply("parse_factor", text, a.ps), LAMBDA right_factor :
         parse_term_loop(text, right_factor.ps,
                         BinOp(a.tok.value, factor, right_factor.node), type)))

\* the loop over TIMES, and after it the loop over DIVIDE
parse_term(text, ps) ==
    Then(Apply("parse_factor", text, ps), LAMBDA factor :
    Then(parse_term_loop(text, factor.ps, factor.node, "TIMES"), LAMBDA times :
    parse_term_loop(text, times.ps, times.node, "DIVIDE")))

parse_add_term_loop(text, ps, term) ==
    Then(accept(text, ps, {"PLUS", "MINUS"}), LAMBDA tok :
    IF tok.tok = NoToken THEN Parsed(term, tok.ps)
    ELSE Then(Apply("parse_term", text, tok.ps), LAMBDA right_term :
         parse_add_term_loop(text, right_term.ps,
                             BinOp(tok.tok.value, term, right_term.node))))

\* parse_add_term without the precedence level below it: the first term is
\* a factor
parse_add_term_of_factors(text, ps) ==
    Then(Apply("parse_factor", text, ps), LAMBDA term :
    parse_add_term_loop(text, Printed(term.ps, Repr(term.node)), term.node))

parse_add_term(text, ps) ==
    Then(Apply("parse_term", text, ps), LAMBDA term :
    parse_add_term_loop(text, Printed(term.ps, Repr(term.node)), term.node))

RelationalTokens == {"LT", "LE", "GT", "GE", "EQ", "NE"}

\* parse_rel_term with a loop in place of the if: a chain of comparisons
parse_rel_term_chained(text, ps) ==
    Then(Apply("parse_add_term", text, ps), LAMBDA left_term :
    Then(accept(text, left_term.ps, RelationalTokens), LAMBDA tok :
    IF tok.tok = NoToken THEN Parsed(left_term.node, tok.ps)
    ELSE Then(Apply("parse_add_term", text, tok.ps), LAMBDA right_term :
         Then(accept(text, right_term.ps, RelationalTokens), LAMBDA more :
         IF more.tok = NoToken
         THEN Parsed(RelOp(tok.tok.value, left_term.node, right_term.node), more.ps)
         ELSE Then(Apply("parse_add_term", text, more.ps), LAMBDA third :
              Parsed(RelOp(more.tok.value,
                           RelOp(tok.tok.value, left_term.node, right_term.node),
                           third.node), third.ps))))))

parse_rel_term(text, ps) ==
    Then(Apply("parse_add_term", text, ps), LAMBDA left_term :
    Then(accept(text, left_term.ps, RelationalTokens), LAMBDA tok :
    IF tok.tok = NoToken THEN Parsed(left_term.node, tok.ps)
    ELSE Then(Apply("parse_add_term", text, tok.ps), LAMBDA right_term :
         Parsed(RelOp(tok.tok.value, left_term.node, right_term.node),
                right_term.ps))))

parse_land_term_loop(text, ps, rel_term) ==
    Then(accept(text, ps, {"LAND"}), LAMBDA tok :
    IF tok.tok = NoToken THEN Parsed(rel_term, tok.ps)
    ELSE Then(Apply("parse_rel_term", text, tok.ps), LAMBDA right_rel_term :
         parse_land_term_loop(text, right_rel_term.ps,
                              LogicalOp("&&", rel_term, right_rel_term.node))))

parse_land_term(text, ps) ==
    Then(Apply("parse_rel_term", text, ps), LAMBDA rel_term :
    parse_land_term_loop(text, rel_term.ps, rel_term.node))

parse_lor_term_loop(text, ps, land_term) ==
    Then(accept(text, ps, {"LOR"}), LAMBDA tok :
    IF tok.tok = NoToken THEN Parsed(land_term, tok.ps)
    ELSE Then(Apply("parse_land_term", text, tok.ps), LAMBDA right_land_term :
         parse_lor_term_loop(text, right_land_term.ps,
                             LogicalOp("||", land_term, right_land_term.node))))

parse_lor_term(text, ps) ==
    Then(Apply("parse_land_term", text, ps), LAMBDA land_term :
    parse_lor_term_loop(text, land_term.ps, land_term.node))

parse_assignment(text, ps) ==
    Then(Apply("parse_lor_term", text, ps), LAMBDA lor_term :
    Then(accept(text, lor_term.ps, {"ASSIGN"}), LAMBDA tok :
    IF tok.tok = NoToken THEN Parsed(lor_term.node, tok.ps)
    ELSE Then(Apply("parse_lor_term", text, tok.ps), LAMBDA value :
         Parsed(Assignment(lor_term.node, value.node), value.ps))))

parse_expression(text, ps) == Apply("parse_assignment", text, ps)

\* the call f(stream) of the parser function named f
Apply(f, text, ps) ==
    CASE f = "parse_statements" -> parse_statements(text, ps)
      [] f = "parse_program" -> parse_program(text, ps)
      [] f = "parse_break_statement" -> parse_break_statement(text, ps)
      [] f = "parse_continue_statement" -> parse_continue_statement(text, ps)
      [] f = "parse_print_statement" -> parse_print_statement(text, ps)
      [] f = "parse_braced_statements" -> parse_braced_statements(text, ps)
      [] f = "parse_while_statement" -> parse_while_statement(text, ps)
      [] f = "parse_optional_type" -> parse_optional_type(text, ps)
      [] f = "parse_const_statement" -> parse_const_statement(text, ps)
      [] f = "parse_optional_initializer" -> parse_optional_initializer(text, ps)
      [] f = "parse_var_statement" -> parse_var_statement(text, ps)
      [] f = "parse_optional_else" -> parse_optional_else(text, ps)
      [] f = "parse_if_statement" -> parse_if_statement(text, ps)
      [] f = "parse_function_parameter" -> parse_function_parameter(text, ps)
      [] f = "parse_function_parameters" -> parse_function_parameters(text, ps)
      [] f = "parse_function_block" -> parse_function_block(text, ps)
      [] f = "parse_function_definition" -> parse_function_definition(text, ps)
      [] f = "parse_expression_statement" -> parse_expression_statement(text, ps)
      [] f = "parse_return_statement" -> parse_return_statement(text, ps)
      [] f = "parse_statement" -> parse_statement(text, ps)
      [] f = "parse_function_argument" -> parse_function_argument(text, ps)
      [] f = "parse_compound" -> parse_compound(text, ps)
      [] f = "parse_factor" -> parse_factor(text, ps)
      [] f = "parse_term" -> parse_term(text, ps)
      [] f = "parse_add_term" -> parse_add_term(text, ps)
      [] f = "parse_rel_term" -> parse_rel_term(text, ps)
      [] f = "parse_land_term" -> parse_land_term(text, ps)
      [] f = "parse_lor_term" -> parse_lor_term(text, ps)
      [] f = "parse_assignment" -> parse_assignment(text, ps)
      [] f = "parse_expression" -> parse_expression(text, ps)

\* parse_source(program): tokenize(program), TokenStream(tokens),
\* parse_program(stream)
parse_source(text, table) ==
    Apply("parse_program", text, TokenStream(Generator(0, 1), table, ""))

(***************************************************************************)
(* model.py: to_source_pp(node, disp).  A DisplayContext is its level: 1   *)
(* for DisplayContext(parent=None), the parent's level + 1 for a child.    *)
(***************************************************************************)
DisplayContext(parent) == parent + 1

RECURSIVE gen_ws(_)
gen_ws(level) == IF level = 0 THEN "" ELSE "  " \o gen_ws(level - 1)

RECURSIVE to_source_pp(_, _)
RECURSIVE JoinSource(_, _, _, _, _)
\* sep.join([prefix + to_source_pp(n, disp) for n in list]), from element i on
JoinSource(list, i, sep, prefix, disp) ==
    IF i > Len(list) THEN ""
    ELSE prefix \o to_source_pp(list[i], disp) \o (IF i < Len(list) THEN sep ELSE "")
             \o JoinSource(list, i + 1, sep, prefix, disp)

\* the objects the parser builds all have a branch; the last branch of the
\* code (no handler: returns None) is not reached for them
to_source_pp(node, disp) ==
    CASE node.k \in {"Integer", "Float", "Boolean", "Char", "Name"} -> node.value.str
      [] node.k = "Type" -> node.name
      [] node.k \in {"BinOp", "RelOp", "LogicalOp"} ->
            to_source_pp(node.left, disp) \o " " \o node.op \o " "
                \o to_source_pp(node.right, disp)
      [] node.k = "UnaryOp" -> node.op \o to_source_pp(node.value, disp)
      [] node.k = "ExprStatement" ->
            gen_ws(disp) \o to_source_pp(node.value, disp) \o ";"
      [] node.k = "PrintStatement" ->
            gen_ws(disp) \o "print " \o to_source_pp(node.value, disp) \o ";"
      [] node.k = "Grouped" -> "(" \o to_source_pp(node.value, disp) \o ")"
      [] node.k = "ConstDeclaration" ->
            gen_ws(disp) \o "const " \o node.name
                \o (IF node.type # NoneNode THEN " " \o to_source_pp(node.type, disp)
                    ELSE "")
                \o " = " \o to_source_pp(node.initializer, disp) \o ";"
      [] node.k = "VarDeclaration" ->
            gen_ws(disp) \o "var " \o node.name
                \o (IF node.type # NoneNode THEN " " \o to_source_pp(node.type, disp)
                    ELSE "")
                \o (IF node.initializer # NoneNode
                    THEN " = " \o to_source_pp(node.initializer, disp) ELSE "")
                \o ";"
      [] node.k = "Assignment" ->
            gen_ws(disp) \o to_source_pp(node.location, disp) \o " = "
                \o to_source_pp(node.value, disp) \o ";"
      [] node.k = "IfStatement" ->
            LET child_disp == DisplayContext(disp)
            IN gen_ws(disp) \o "if " \o to_source_pp(node.test, disp) \o " {\n"
                   \o gen_ws(child_disp) \o to_source_pp(node.consequence, child_disp)
                   \o "\n" \o gen_ws(child_disp) \o "}"
                   \o (IF node.alternative # NoneNode
                       THEN " else {\n" \o gen_ws(child_disp)
                                \o to_source_pp(node.alternative, child_disp)
                                \o gen_ws(disp) \o "\n" \o gen_ws(child_disp) \o "}"
                       ELSE "")
      [] node.k = "WhileStatement" ->
            LET child_disp == DisplayContext(disp)
            IN gen_ws(disp) \o "while " \o to_source_pp(node.test, disp) \o " {\n"
                   \o to_source_pp(node.body, child_disp)
                   \o "\n" \o gen_ws(child_disp) \o "}"
      [] node.k = "BreakStatement" -> gen_ws(disp) \o "break;"
      [] node.k = "ContinueStatement" -> gen_ws(disp) \o "continue;"
      [] node.k = "Block" -> JoinSource(node.statements, 1, "\n", gen_ws(disp), disp)
      [] node.k = "Compound" ->
            gen_ws(disp) \o "{ " \o JoinSource(node.statements, 1, " ", "", disp) \o "}"
      [] node.k = "FunctionDefinition" ->
            "func " \o to_source_pp(node.name, disp) \o " ("
                \o JoinSource(node.fn_parameters, 1, ", ", "", disp) \o ") "
                \o to_source_pp(node.fn_return_type, disp)
                \o " {\n" \o to_source_pp(node.fn_code_block, DisplayContext(disp))
                \o "\n" \o gen_ws(disp) \o "}\n"
      [] node.k = "FunctionParameter" ->
            node.name \o " " \o to_source_pp(node.type, disp)
                \o (IF node.initializer # NoneNode THEN " = " \o Repr(node.initializer)
                    ELSE "")
      [] node.k = "FunctionReturn" ->
            "return " \o to_source_pp(node.expression, disp) \o ";"
      [] node.k = "FunctionApplication" ->
            node.name.value.str \o "("
                \o JoinSource(node.fn_arguments, 1, ", ", "", disp) \o ")"

(***************************************************************************)
(* interpret_program(model): the root Context, then interpret(model, ...)  *)
(* of the top-level Block, one statement per step.                         *)
(***************************************************************************)
Root == 1

\* no TokenStream, WVM or Metal object exists, and Program.have_errors is
\* False as the constructor leaves it
NoObjects ==
    /\ stream = NoneNode
    /\ call = NoneNode
    /\ code = <<>>
    /\ machine = NoneNode
    /\ have_errors = FALSE

Outcome(r) == [oc |-> r.oc, exc |-> r.exc, t |-> r.t, v |-> r.v]

Init ==
    /\ program \in Programs
    /\ pc = 1
    /\ heap = <<[env |-> NoEnv, parent |-> 0]>>
    /\ out = ""
    /\ result = Outcome(RetNone(<<>>))
    /\ status = "running"
    /\ source = ""
    /\ SYMBOL_TABLE = NoSymbols
    /\ history = <<>>
    /\ gen = Generator(0, 1)
    /\ tokens = <<>>
    /\ NoObjects

\* the Block has no statements: "Nothing to interpret in Block"
EmptyBlock ==
    /\ status = "running"
    /\ program.statements = <<>>
    /\ status' = "RuntimeError"
    /\ result' = Outcome(Raise("RuntimeError", <<>>))
    /\ UNCHANGED <<program, pc, heap, out, parserVars, tokenizerVars, laterVars>>

\* interpret(statement, context) returns
InterpretStatement ==
    /\ status = "running"
    /\ pc <= Len(program.statements)
    /\ LET r == Interp(program.statements[pc], Root, [heap |-> heap, out |-> out])
       IN /\ r.oc # "raise"
          /\ heap' = r.st.heap
          /\ out' = r.st.out
          /\ result' = Outcome(r)
          /\ pc' = pc + 1
    /\ UNCHANGED <<program, status, parserVars, tokenizerVars, laterVars>>

\* interpret(statement, context) raises: the exception leaves interpret_program
StatementRaises ==
    /\ status = "running"
    /\ pc <= Len(program.statements)
    /\ LET r == Interp(program.statements[pc], Root, [heap |-> heap, out |-> out])
       IN /\ r.oc = "raise"
          /\ heap' = r.st.heap
          /\ out' = r.st.out
          /\ result' = Outcome(r)
          /\ status' = r.exc
    /\ UNCHANGED <<program, pc, parserVars, tokenizerVars, laterVars>>

\* the loop over the Block's statements ends: interpret_program returns None
BlockReturns ==
    /\ status = "running"
    /\ program.statements # <<>>
    /\ pc > Len(program.statements)
    /\ status' = "returned"
    /\ UNCHANGED <<program, pc, heap, out, result, parserVars, tokenizerVars, laterVars>>

Next == EmptyBlock \/ InterpretStatement \/ StatementRaises \/ BlockReturns

Spec == Init /\ [][Next]_vars

(***************************************************************************)
(* tokenize.main: "for tok in tokenize(program): print(tok)", one call of  *)
(* next() on the generator per step.                                       *)
(***************************************************************************)
\* longest source text of the tokenizer runs built from the pieces below
MaxPieces == 2

\* pieces of source text: tokens of every kind, blanks, comments, illegal
\* characters, and literals and comments left open
\* the character literals of the language: a character, and the escapes
CharLiterals == {"'a'", "'\\n'", "'\\t'", "'\\\\'", "'\\''", "'\\0'"}

Pieces ==
    {"1", "12.5", "x", "print", "<=", "=", ";", " ", "\t", "\r", "\n", "@", "&",
     "/* c */", "/*\n*/", "/* c", "// c", "'a"} \cup CharLiterals

RECURSIVE Texts(_)
\* the texts made of at most n pieces
Texts(n) ==
    IF n = 0 THEN {""}
    ELSE Texts(n - 1) \cup {t \o piece : t \in Texts(n - 1), piece \in Pieces}

TokenizerSources == Texts(MaxPieces)

TokenizerInit ==
    /\ source \in TokenizerSources
    /\ gen = Generator(0, 1)
    /\ tokens = <<>>
    /\ out = ""
    /\ status = "running"
    /\ program = NoneNode
    /\ pc = 0
    /\ heap = <<>>
    /\ result = Outcome(RetNone(<<>>))
    /\ SYMBOL_TABLE = NoSymbols
    /\ history = <<>>
    /\ NoObjects

\* next() yields a token and the loop body prints it
TokenizeYields ==
    /\ status = "running"
    /\ LET r == NextToken(source, gen)
       IN /\ r.oc = "yield"
          /\ gen' = r.g
          /\ tokens' = Append(tokens, r.tok)
          /\ out' = out \o r.printed \o TokenRepr(r.tok) \o "\n"
    /\ UNCHANGED <<program, status, interpVars, parserVars, laterVars>>

\* next() raises: the exception leaves main
TokenizeRaises ==
    /\ status = "running"
    /\ LET r == NextToken(source, gen)
       IN /\ r.oc = "raise"
          /\ gen' = r.g
          /\ out' = out \o r.printed
          /\ status' = r.exc
    /\ UNCHANGED <<program, tokens, interpVars, parserVars, laterVars>>

\* next() raises StopIteration: the for loop ends
TokenizeStops ==
    /\ status = "running"
    /\ NextToken(source, gen).oc = "stop"
    /\ status' = "returned"
    /\ UNCHANGED <<program, out, tokens, gen, interpVars, parserVars, laterVars>>

TokenizerNext == TokenizeYields \/ TokenizeRaises \/ TokenizeStops

TokenizerSpec == TokenizerInit /\ [][TokenizerNext]_vars

(***************************************************************************)
(* Source texts for the parser.                                            *)
(***************************************************************************)
\* longest chain of multiplicative operators
MaxOps == 3

\* operands of the chains: the text and the object parse_factor builds
Operand(text, node) == [text |-> text, node |-> node]

Names == <<"a", "b", "c", "d", "e">>

NameOperand(i) == Operand(Names[i], Name(Names[i]))

\* "a op1 b op2 c ...;": the operands are names, ops the operators
RECURSIVE ChainText(_, _)
ChainText(ops, i) ==
    IF i > Len(ops) THEN ""
    ELSE " " \o ops[i] \o " " \o Names[i + 1] \o ChainText(ops, i + 1)

ChainSource(ops) == Names[1] \o ChainText(ops, 1) \o ";"

\* the chains of 1..MaxOps operators '*' and '/'
C12Params == UNION {[1..n -> {"*", "/"}] : n \in 1..MaxOps}

\* three operands of one kind: names, integers, or a group, a negation
\* and a float
OperandTriples ==
    {<<NameOperand(1), NameOperand(2), NameOperand(3)>>,
     <<Operand("2", Integer("2")), Operand("3", Integer("3")),
       Operand("4", Integer("4"))>>,
     <<Operand("(a)", Grouped(Name("a"))), Operand("-b", UnaryOp("-", Name("b"))),
       Operand("1.5", Float("1.5"))>>}

\* "e1 op1 e2 op2 e3;" with at least one additive operator
C13Params ==
    {q \in [e : OperandTriples, op1 : {"+", "-", "*", "/"}, op2 : {"+", "-", "*", "/"}] :
        q.op1 \in {"+", "-"} \/ q.op2 \in {"+", "-"}}

TwoOperatorSource(q) ==
    q.e[1].text \o " " \o q.op1 \o " " \o q.e[2].text \o " " \o q.op2 \o " "
        \o q.e[3].text \o ";"

S1Source == "print 2 + 3 * 4;"

RelationalOperators == {"<", "<=", ">", ">=", "==", "!="}

\* "a op1 b op2 c;" with two relational operators
C14Params == [op1 : RelationalOperators, op2 : RelationalOperators]

C14Source(q) == ChainSource(<<q.op1, q.op2>>)

\* the chained assignment of the module docstring, and a single one
C15Source == "x = y = 2 + 3;"

SingleAssignmentSource == "x = 2 + 3;"

\* a call of f, before, after or without the definition of f
FunctionSource == "func f(n int) int { return n; }"

C16Params == {"none", "before", "after"}

C16Source(where) ==
    CASE where = "none" -> "print f(1);"
      [] where = "before" -> "print f(1); " \o FunctionSource
      [] where = "after" -> FunctionSource \o " print f(1);"

\* programs that use the name f as a variable
VariableSources == {"print f;", "var f = 1; print f + 1;"}

\* "print { last };" for a last statement of each kind
LastStatements ==
    {"var t = 1;", "const t = 1;", "print 1;", "if true { }", "while false { }",
     "break;", "continue;", "return 1;", "1;", "t = 1;", ""}

C18Source(last) == "print { var s = 2; " \o last \o " };"

\* statements of the other kinds, for the round trip
OtherSources ==
    {"", "x;", "f();", "var x int = 1; x = x + 1; print x;",
     "const c = 'a'; print c;", "var x = 0; while x < 2 { x = x + 1; }",
     "if 1 < 2 { print 1; } else { print 2; }", "print { 1; };",
     "var x = 1; print x = 2;", "print true && !false || false;",
     "func g() int { return 1; } g();", "func h() { }", "print", "print 1 "}

ParserSources ==
    {ChainSource(ops) : ops \in C12Params}
    \cup {TwoOperatorSource(q) : q \in C13Params} \cup {S1Source}
    \cup {C14Source(q) : q \in C14Params}
    \cup {C15Source, SingleAssignmentSource}
    \cup {C16Source(where) : where \in C16Params}
    \cup VariableSources
    \cup {C18Source(last) : last \in LastStatements}
    \cup OtherSources

\* the texts a process parses after its first
LaterSources == VariableSources \cup {C16Source("after"), C16Source("none"), S1Source}

(***************************************************************************)
(* A process that imports parse.py and handles programs one after the      *)
(* other: parse_source, then interpret_program or to_source_pp of the      *)
(* model (interp.py, main program); the printed source is parsed again.    *)
(***************************************************************************)
\* number of calls of parse_source in one process
MaxRuns == 2

\* Program(filename) after read_source: the text is read, the model is None
Read(text, origin) ==
    [source |-> text, origin |-> origin, oc |-> "read", model |-> NoneNode,
     printed |-> ""]

\* what parse_source did with the text: the model, or the exception, and
\* the text the parser wrote to standard output
Done(run, r) ==
    [run EXCEPT !.oc = IF r.oc = "ok" THEN "ok" ELSE r.exc, !.model = r.node,
                !.printed = r.ps.out]

ParserInit ==
    /\ source \in ParserSources
    /\ SYMBOL_TABLE = NoSymbols
    /\ history = <<Read(source, "file")>>
    /\ program = NoneNode
    /\ status = "read"
    /\ out = ""
    /\ pc = 0
    /\ heap = <<>>
    /\ result = Outcome(RetNone(<<>>))
    /\ gen = Generator(0, 1)
    /\ tokens = <<>>
    /\ NoObjects

\* parse_source(program) returns: program.model is the Block
ParseSourceReturns ==
    /\ status = "read"
    /\ LET r == parse_source(source, SYMBOL_TABLE)
       IN /\ r.oc = "ok"
          /\ program' = r.node
          /\ status' = "parsed"
          /\ SYMBOL_TABLE' = r.ps.table
          /\ out' = out \o r.ps.out
          /\ history' = [history EXCEPT ![Len(history)] = Done(@, r)]
    /\ UNCHANGED <<source, interpVars, tokenizerVars, laterVars>>

\* parse_source(program) raises: program.model stays None
ParseSourceRaises ==
    /\ status = "read"
    /\ LET r == parse_source(source, SYMBOL_TABLE)
       IN /\ r.oc = "raise"
          /\ status' = r.exc
          /\ SYMBOL_TABLE' = r.ps.table
          /\ out' = out \o r.ps.out
          /\ history' = [history EXCEPT ![Len(history)] = Done(@, r)]
    /\ UNCHANGED <<program, source, interpVars, tokenizerVars, laterVars>>

\* the process goes on with another program
ReadSource ==
    /\ status \notin {"read", "running"}
    /\ Len(history) < MaxRuns
    /\ \E text \in LaterSources :
          /\ source' = text
          /\ history' = Append(history, Read(text, "file"))
    /\ program' = NoneNode
    /\ status' = "read"
    /\ UNCHANGED <<SYMBOL_TABLE, out, interpVars, tokenizerVars, laterVars>>

\* to_source_pp(program.model, DisplayContext()): the text becomes the
\* source of the next program
PrettyPrint ==
    /\ status = "parsed"
    /\ Len(history) < MaxRuns
    /\ LET text == to_source_pp(program, DisplayContext(0))
       IN /\ source' = text
          /\ history' = Append(history, Read(text, "to_source_pp"))
    /\ program' = NoneNode
    /\ status' = "read"
    /\ UNCHANGED <<SYMBOL_TABLE, out, interpVars, tokenizerVars, laterVars>>

\* interpret_program(program.model) begins
InterpretProgram ==
    /\ status = "parsed"
    /\ pc' = 1
    /\ heap' = <<[env |-> NoEnv, parent |-> 0]>>
    /\ result' = Outcome(RetNone(<<>>))
    /\ status' = "running"
    /\ UNCHANGED <<program, out, parserVars, tokenizerVars, laterVars>>

ParserNext ==
    \/ ParseSourceReturns \/ ParseSourceRaises \/ ReadSource \/ PrettyPrint
    \/ InterpretProgram
    \/ EmptyBlock \/ InterpretStatement \/ StatementRaises \/ BlockReturns

ParserSpec == ParserInit /\ [][ParserNext]_vars

(***************************************************************************)
(* A caller of the TokenStream: any sequence of peek, accept and expect    *)
(* on the stream of one source text.  An exception of a call is caught     *)
(* and the caller goes on with the same stream.                            *)
(***************************************************************************)
StreamSources == {"", "x = 1;", "print x;", "1 @ 2", "x "}

\* the token types the caller asks for
StreamTypes == {"NAME", "ASSIGN", "INTEGER", "SEMI", "PRINT", "EOF"}

\* what the last call was and what it gave: the token returned (NoToken for
\* None or no token), the answer of peek, the class of the exception
StreamCall(op, type, oc, tok, answer) ==
    [op |-> op, type |-> type, oc |-> oc, tok |-> tok, answer |-> answer]

StreamInit ==
    /\ source \in StreamSources
    /\ stream = TokenStream(Generator(0, 1), NoSymbols, "")
    /\ call = StreamCall("__init__", "", "ok", NoToken, FALSE)
    /\ tokens = <<>>
    /\ status = "running"
    /\ program = NoneNode
    /\ pc = 0
    /\ heap = <<>>
    /\ out = ""
    /\ result = Outcome(RetNone(<<>>))
    /\ SYMBOL_TABLE = NoSymbols
    /\ history = <<>>
    /\ gen = Generator(0, 1)
    /\ code = <<>>
    /\ machine = NoneNode
    /\ have_errors = FALSE

\* stream.peek(type)
Peek ==
    \E type \in StreamTypes :
       LET r == peek(source, stream, {type})
       IN /\ stream' = r.ps
          /\ call' = IF r.oc = "ok" THEN StreamCall("peek", type, "ok", NoToken, r.b)
                     ELSE StreamCall("peek", type, r.exc, NoToken, FALSE)
          /\ UNCHANGED <<program, out, status, tokens, gen, interpVars, parserVars,
                         machineVars, have_errors>>

\* the token a call returned is handed to the caller
Handed(r) == IF r.oc = "ok" /\ r.tok # NoToken THEN Append(tokens, r.tok) ELSE tokens

\* stream.accept(type)
Accept ==
    \E type \in StreamTypes :
       LET r == accept(source, stream, {type})
       IN /\ stream' = r.ps
          /\ call' = StreamCall("accept", type, IF r.oc = "ok" THEN "ok" ELSE r.exc, r.tok,
                          FALSE)
          /\ tokens' = Handed(r)
          /\ UNCHANGED <<program, out, status, gen, interpVars, parserVars,
                         machineVars, have_errors>>

\* stream.expect(type)
Expect ==
    \E type \in StreamTypes :
       LET r == expect(source, stream, type)
       IN /\ stream' = r.ps
          /\ call' = StreamCall("expect", type, IF r.oc = "ok" THEN "ok" ELSE r.exc, r.tok,
                          FALSE)
          /\ tokens' = Handed(r)
          /\ UNCHANGED <<program, out, status, gen, interpVars, parserVars,
                         machineVars, have_errors>>

StreamNext == Peek \/ Accept \/ Expect

StreamSpec == StreamInit /\ [][StreamNext]_vars

(***************************************************************************)
(* wvm.py: the stack machine WVM, and typecheck.py and generate_wvm in     *)
(* front of it as in wvm.main.                                             *)
(***************************************************************************)
\* an instruction tuple (op, *args) with at most one argument; arg is None
\* for a tuple of one element
Ins(op, arg) == [op |-> op, arg |-> arg]

NoSlots == [slot \in {} |-> PyNone]

\* a dict of WVM.stack: the local slots, and the value under the key
\* 'return' (None when the dict has no such key)
Frame(return, slots) == [return |-> return, slots |-> slots]

\* WVM.__init__; running is set by run
WVM ==
    [pc |-> 0, istack |-> <<>>, fstack |-> <<>>, globals |-> NoSlots,
     stack |-> <<Frame(PyNone, NoSlots)>>, labels |-> [name \in {} |-> 0],
     running |-> FALSE]

\* { op[1]: n for n, op in enumerate(instructions) if op[0] == 'LABEL' }:
\* the last LABEL of a name wins
Labels(instructions) ==
    LET at == {n \in 1..Len(instructions) : instructions[n].op = "LABEL"}
    IN [name \in {instructions[n].arg.s : n \in at} |->
            (CHOOSE n \in at : /\ instructions[n].arg.s = name
                               /\ \A k \in at : instructions[k].arg.s = name => k <= n) - 1]

\* what executing one instruction gives: the machine and the output after
\* it, and the class of the exception it raised, if any
Executed(m, o) == [exc |-> "", m |-> m, out |-> o]
Faulted(exc, m, o) == [exc |-> exc, m |-> m, out |-> o]

\* array('i').append(value) takes an int, array('d') is guarded by the assert
IPUSH(m, o, value) ==
    IF value.py \in {"int", "bool"}
    THEN Executed([m EXCEPT !.istack = Append(@, value.n)], o)
    ELSE Faulted("TypeError", m, o)

FPUSH(m, o, value) ==
    IF value.py = "float" THEN Executed([m EXCEPT !.fstack = Append(@, value)], o)
    ELSE Faulted("AssertionError", m, o)

\* left < right and the other five comparisons; an operator that is none of
\* them is in no branch of ICMP and FCMP
Comparisons == {"<", "<=", ">", ">=", "==", "!="}

Compare(op, left, right) ==
    CASE op = "<" -> left < right
      [] op = "<=" -> left <= right
      [] op = ">" -> left > right
      [] op = ">=" -> left >= right
      [] op = "==" -> left = right
      [] op = "!=" -> left # right

\* left & right, left | right, left ^ right on Python ints
RECURSIVE Bitwise(_, _, _)
Bitwise(op, a, b) ==
    LET bit(x, y) == CASE op = "AND" -> IF x = 1 /\ y = 1 THEN 1 ELSE 0
                       [] op = "OR" -> IF x = 1 \/ y = 1 THEN 1 ELSE 0
                       [] op = "XOR" -> IF x # y THEN 1 ELSE 0
    IN IF a \in {0, -1} /\ b \in {0, -1} THEN -bit(-a, -b)
       ELSE 2 * Bitwise(op, a \div 2, b \div 2) + bit(a % 2, b % 2)

\* IADD ISUB IMUL IDIV AND OR XOR ICMP: right = IPOP(), left = IPOP(), IPUSH
IntegerOp(m, o, ins) ==
    LET n == Len(m.istack)
        popped == [m EXCEPT !.istack = SubSeq(@, 1, n - 2)]
    IN IF n < 2 THEN Faulted("IndexError", [m EXCEPT !.istack = <<>>], o)
       ELSE IF ins.op = "IDIV" /\ m.istack[n] = 0 THEN Faulted("ZeroDivisionError", popped, o)
       ELSE IF ins.op = "ICMP"
            THEN IF ins.arg.py = "str" /\ ins.arg.s \in Comparisons
                 THEN IPUSH(popped, o, PyBool(Compare(ins.arg.s, m.istack[n - 1], m.istack[n])))
                 ELSE Executed(popped, o)
       ELSE IPUSH(popped, o,
                  PyInt(CASE ins.op = "IADD" -> m.istack[n - 1] + m.istack[n]
                          [] ins.op = "ISUB" -> m.istack[n - 1] - m.istack[n]
                          [] ins.op = "IMUL" -> m.istack[n - 1] * m.istack[n]
                          [] ins.op = "IDIV" -> m.istack[n - 1] \div m.istack[n]
                          [] OTHER -> Bitwise(ins.op, m.istack[n - 1], m.istack[n])))

\* FADD FSUB FMUL FDIV FCMP
FloatOp(m, o, ins) ==
    LET n == Len(m.fstack)
        popped == [m EXCEPT !.fstack = SubSeq(@, 1, n - 2)]
    IN IF n < 2 THEN Faulted("IndexError", [m EXCEPT !.fstack = <<>>], o)
       ELSE IF ins.op = "FCMP"
            THEN IF ins.arg.py = "str" /\ ins.arg.s \in Comparisons
                 THEN IPUSH(popped, o,
                            PyBool(Compare(ins.arg.s, m.fstack[n - 1].n * m.fstack[n].d,
                                           m.fstack[n].n * m.fstack[n - 1].d)))
                 ELSE Executed(popped, o)
       ELSE LET a == Arith(CASE ins.op = "FADD" -> "+" [] ins.op = "FSUB" -> "-"
                             [] ins.op = "FMUL" -> "*" [] ins.op = "FDIV" -> "/",
                           "float", m.fstack[n - 1], m.fstack[n])
            IN IF a.exc # "" THEN Faulted(a.exc, popped, o) ELSE FPUSH(popped, o, a.v)

\* IPOP FPOP ITOF FTOI
PopOp(m, o, ins) ==
    IF ins.op \in {"IPOP", "ITOF"}
    THEN IF m.istack = <<>> THEN Faulted("IndexError", m, o)
         ELSE LET popped == [m EXCEPT !.istack = SubSeq(@, 1, Len(@) - 1)]
              IN IF ins.op = "IPOP" THEN Executed(popped, o)
                 ELSE FPUSH(popped, o, PyFloat(m.istack[Len(m.istack)], 1))
    ELSE IF m.fstack = <<>> THEN Faulted("IndexError", m, o)
         ELSE LET popped == [m EXCEPT !.fstack = SubSeq(@, 1, Len(@) - 1)]
              IN IF ins.op = "FPOP" THEN Executed(popped, o)
                 ELSE IPUSH(popped, o, IntOf(m.fstack[Len(m.fstack)]).v)

\* ILOAD_x / FLOAD_x: push slots[slot]
Load(m, o, ins, slots) ==
    IF ins.arg.py \notin {"int", "bool"} THEN Faulted("AssertionError", m, o)
    ELSE IF ins.arg.n \notin DOMAIN slots THEN Faulted("KeyError", m, o)
    ELSE IF ins.op \in {"ILOAD_GLOBAL", "ILOAD_LOCAL"} THEN IPUSH(m, o, slots[ins.arg.n])
    ELSE FPUSH(m, o, slots[ins.arg.n])

\* ISTORE_x / FSTORE_x: slots[slot] = IPOP() or FPOP(); gives the popped
\* value and the machine after the pop
Stored(m, o, ins) ==
    IF ins.arg.py \notin {"int", "bool"} THEN Faulted("AssertionError", m, o)
    ELSE IF ins.op \in {"ISTORE_GLOBAL", "ISTORE_LOCAL"}
         THEN IF m.istack = <<>> THEN Faulted("IndexError", m, o)
              ELSE [exc |-> "", out |-> o, v |-> PyInt(m.istack[Len(m.istack)]),
                    m |-> [m EXCEPT !.istack = SubSeq(@, 1, Len(@) - 1)]]
    ELSE IF m.fstack = <<>> THEN Faulted("IndexError", m, o)
         ELSE [exc |-> "", out |-> o, v |-> m.fstack[Len(m.fstack)],
               m |-> [m EXCEPT !.fstack = SubSeq(@, 1, Len(@) - 1)]]

\* ILOAD_GLOBAL FLOAD_GLOBAL ISTORE_GLOBAL FSTORE_GLOBAL
GlobalOp(m, o, ins) ==
    IF ins.op \in {"ILOAD_GLOBAL", "FLOAD_GLOBAL"} THEN Load(m, o, ins, m.globals)
    ELSE LET s == Stored(m, o, ins)
         IN IF s.exc # "" THEN s
            ELSE Executed([s.m EXCEPT !.globals = (ins.arg.n :> s.v) @@ @], o)

\* ILOAD_LOCAL FLOAD_LOCAL ISTORE_LOCAL FSTORE_LOCAL, on self.stack[-1]
LocalOp(m, o, ins) ==
    IF ins.arg.py \notin {"int", "bool"} THEN Faulted("AssertionError", m, o)
    ELSE IF ins.op \in {"ILOAD_LOCAL", "FLOAD_LOCAL"}
         THEN IF m.stack = <<>> THEN Faulted("IndexError", m, o)
              ELSE Load(m, o, ins, m.stack[Len(m.stack)].slots)
    ELSE LET s == Stored(m, o, ins)
         IN IF s.exc # "" THEN s
            ELSE IF m.stack = <<>> THEN Faulted("IndexError", s.m, o)
            ELSE Executed([s.m EXCEPT !.stack[Len(m.stack)].slots = (ins.arg.n :> s.v) @@ @], o)

\* GOTO and BZ
Jump(m, o, ins) ==
    LET to == IF ins.arg.py = "str" /\ ins.arg.s \in DOMAIN m.labels
              THEN Executed([m EXCEPT !.pc = m.labels[ins.arg.s]], o)
              ELSE Faulted("KeyError", m, o)
    IN IF ins.op = "GOTO" THEN to
       ELSE IF m.istack = <<>> THEN Faulted("IndexError", m, o)
       ELSE IF m.istack[Len(m.istack)] # 0
            THEN Executed([m EXCEPT !.istack = SubSeq(@, 1, Len(@) - 1)], o)
       ELSE [to EXCEPT !.m.istack = SubSeq(@, 1, Len(@) - 1)]

\* CALL with the new dict shared with the caller: the locals are stored in
\* the caller's dict
CALL_in_place(m, o, ins) ==
    LET at == IF m.stack = <<>> THEN Append(m.stack, Frame(PyInt(m.pc), NoSlots))
              ELSE [m.stack EXCEPT ![Len(m.stack)].return = PyInt(m.pc)]
        pushed == [m EXCEPT !.stack = at]
    IN IF ins.arg.py = "str" /\ ins.arg.s \in DOMAIN m.labels
       THEN Executed([pushed EXCEPT !.pc = m.labels[ins.arg.s]], o)
       ELSE Faulted("KeyError", pushed, o)

\* self.stack.append({}); self.stack[-1]['return'] = self.pc;
\* self.pc = self.labels[name]
CALL(m, o, ins) ==
    LET pushed == [m EXCEPT !.stack = Append(@, Frame(PyInt(m.pc), NoSlots))]
    IN IF ins.arg.py = "str" /\ ins.arg.s \in DOMAIN m.labels
       THEN Executed([pushed EXCEPT !.pc = m.labels[ins.arg.s]], o)
       ELSE Faulted("KeyError", pushed, o)

\* self.pc = self.stack[-1]['return']; self.stack.pop()
RET(m, o) ==
    IF m.stack = <<>> THEN Faulted("IndexError", m, o)
    ELSE IF m.stack[Len(m.stack)].return = PyNone THEN Faulted("KeyError", m, o)
    ELSE Executed([m EXCEPT !.pc = m.stack[Len(m.stack)].return.n,
                            !.stack = SubSeq(@, 1, Len(@) - 1)], o)

\* chr(n) for the code points of the model's characters
Chr(n) == CHOOSE ch \in Chars : Ord(ch) = n

\* IPRINT FPRINT BPRINT CPRINT
OutputOp(m, o, ins) ==
    IF ins.op = "FPRINT"
    THEN IF m.fstack = <<>> THEN Faulted("IndexError", m, o)
         ELSE Executed([m EXCEPT !.fstack = SubSeq(@, 1, Len(@) - 1)],
                       o \o Str(m.fstack[Len(m.fstack)]) \o "\n")
    ELSE IF m.istack = <<>> THEN Faulted("IndexError", m, o)
    ELSE LET v == m.istack[Len(m.istack)]
             popped == [m EXCEPT !.istack = SubSeq(@, 1, Len(@) - 1)]
         IN CASE ins.op = "IPRINT" -> Executed(popped, o \o ToString(v) \o "\n")
              [] ins.op = "BPRINT" ->
                    Executed(popped, o \o (IF v # 0 THEN "true" ELSE "false") \o "\n")
              [] ins.op = "CPRINT" ->
                    IF v < 0 THEN Faulted("ValueError", popped, o)
                    ELSE Executed(popped, o \o Chr(v))

\* the methods of WVM that take one argument beside self
WithArgument ==
    {"IPUSH", "FPUSH", "ICMP", "FCMP", "LABEL", "GOTO", "BZ", "CALL",
     "ILOAD_GLOBAL", "FLOAD_GLOBAL", "ISTORE_GLOBAL", "FSTORE_GLOBAL",
     "ILOAD_LOCAL", "FLOAD_LOCAL", "ISTORE_LOCAL", "FSTORE_LOCAL"}

WithoutArgument ==
    {"IPOP", "FPOP", "ITOF", "FTOI", "IADD", "ISUB", "IMUL", "IDIV", "AND", "OR",
     "XOR", "FADD", "FSUB", "FMUL", "FDIV", "HALT", "RET", "IPRINT", "FPRINT",
     "BPRINT", "CPRINT"}

\* getattr(self, op)(*args)
Execute(m, o, ins) ==
    IF ins.op \notin WithArgument \cup WithoutArgument THEN Faulted("AttributeError", m, o)
    ELSE IF (ins.op \in WithArgument) # (ins.arg # PyNone) THEN Faulted("TypeError", m, o)
    ELSE CASE ins.op = "IPUSH" -> IPUSH(m, o, ins.arg)
           [] ins.op = "FPUSH" -> FPUSH(m, o, ins.arg)
           [] ins.op \in {"IADD", "ISUB", "IMUL", "IDIV", "AND", "OR", "XOR", "ICMP"} ->
                 IntegerOp(m, o, ins)
           [] ins.op \in {"FADD", "FSUB", "FMUL", "FDIV", "FCMP"} -> FloatOp(m, o, ins)
           [] ins.op \in {"IPOP", "FPOP", "ITOF", "FTOI"} -> PopOp(m, o, ins)
           [] ins.op \in {"ILOAD_GLOBAL", "FLOAD_GLOBAL", "ISTORE_GLOBAL", "FSTORE_GLOBAL"} ->
                 GlobalOp(m, o, ins)
           [] ins.op \in {"ILOAD_LOCAL", "FLOAD_LOCAL", "ISTORE_LOCAL", "FSTORE_LOCAL"} ->
                 LocalOp(m, o, ins)
           [] ins.op = "HALT" -> Executed([m EXCEPT !.running = FALSE], o)
           [] ins.op = "LABEL" -> Executed(m, o)
           [] ins.op \in {"GOTO", "BZ"} -> Jump(m, o, ins)
           [] ins.op = "CALL" -> CALL(m, o, ins)
           [] ins.op = "RET" -> RET(m, o)
           [] OTHER -> OutputOp(m, o, ins)

(***************************************************************************)
(* typecheck.py and the code generator of wvm.py                           *)
(***************************************************************************)
\* check(node, context): the type it returns, or the class of the exception
\* that leaves it. context.error calls program.error, which class Program
\* (program.py:14-28) does not have; PrintStatement has no attribute eval.
RECURSIVE check(_)
check(node) ==
    CASE node.k = "Integer" -> [exc |-> "", t |-> "int"]
      [] node.k = "Float" -> [exc |-> "", t |-> "float"]
      [] node.k = "BinOp" ->
            LET left_type == check(node.left)
                right_type == check(node.right)
            IN IF left_type.exc # "" THEN left_type
               ELSE IF right_type.exc # "" THEN right_type
               ELSE IF left_type.t # right_type.t THEN [exc |-> "AttributeError", t |-> ""]
               ELSE [exc |-> "", t |-> "Ellipsis"]
      [] node.k = "PrintStatement" ->
            IF "eval" \notin DOMAIN node THEN [exc |-> "AttributeError", t |-> ""]
            ELSE LET valuetype == check(node.eval)
                 IN IF valuetype.exc # "" THEN valuetype ELSE [exc |-> "", t |-> "NoneType"]
      [] OTHER -> [exc |-> "RuntimeError", t |-> ""]

\* generate(node, context): the type it returns and context.code after it,
\* or the class of the exception that leaves it
RECURSIVE generate(_, _)
generate(node, context) ==
    CASE node.k = "Integer" ->
            [exc |-> "", t |-> "int",
             code |-> Append(context, Ins("IPUSH", PyInt(IntOfLexeme(node.value.str))))]
      [] node.k = "Float" ->
            [exc |-> "", t |-> "float",
             code |-> Append(context, Ins("FPUSH", FloatOfLexeme(node.value.str)))]
      [] node.k = "PrintStatement" ->
            IF "eval" \notin DOMAIN node
            THEN [exc |-> "AttributeError", t |-> "", code |-> context]
            ELSE LET valtype == generate(node.eval, context)
                 IN IF valtype.exc # "" THEN valtype
                    ELSE [exc |-> "", t |-> "NoneType",
                          code |-> CASE valtype.t = "int" -> Append(valtype.code, Ins("IPRINT", PyNone))
                                     [] valtype.t = "float" -> Append(valtype.code, Ins("FPRINT", PyNone))
                                     [] OTHER -> valtype.code]
      [] OTHER -> [exc |-> "RuntimeError", t |-> "", code |-> context]

\* generate_wvm(program)
generate_wvm(model) ==
    LET r == generate(model, <<>>)
    IN IF r.exc # "" THEN r ELSE [r EXCEPT !.code = Append(@, Ins("HALT", PyNone))]

(***************************************************************************)
(* Runs of the machine: wvm.main on a model (check_program, generate_wvm,  *)
(* WVM().run), generate_wvm and WVM().run on a model, and WVM().run on     *)
(* instructions written by hand.                                           *)
(***************************************************************************)
\* largest integer operand of the generated and hand-written instructions
MaxOperand == 2

\* (op,), (op, n) and (op, name)
Plain(op) == Ins(op, PyNone)
WithInt(op, n) == Ins(op, PyInt(n))
WithName(op, name) == Ins(op, PyStr(name))

\* print statements over int and float arithmetic, as the parser builds them
C23Params == [op : {"+", "-", "*", "/"}, t : {"int", "float"}, n : 1..MaxOperand]

C23Program(q) ==
    Block(<<PrintStatement(BinOp(q.op, CHOOSE e \in Literals(q.t) : TRUE,
                                 IF q.t = "int" THEN IntLit(q.n) ELSE Float("0.5"))),
            PrintStatement(IntLit(q.n))>>)

\* print l op r; print n;  the first statement well typed or not
C24Params == [left : {"int", "float"}, right : {"int", "float"}, n : 1..MaxOperand]

C24Program(q) ==
    Block(<<PrintStatement(BinOp("+", CHOOSE e \in Literals(q.left) : TRUE,
                                 CHOOSE e \in Literals(q.right) : TRUE)),
            PrintStatement(IntLit(q.n))>>)

\* models that are a single node: Program.model set by hand
NodeModels ==
    {IntLit(n) : n \in 1..MaxOperand} \cup {Float("0.5"), PrintStatement(IntLit(1))}
    \cup {BinOp("+", l, r) : l, r \in {IntLit(1), Float("0.5")}}

Models ==
    {C23Program(q) : q \in C23Params} \cup {C24Program(q) : q \in C24Params}
    \cup NodeModels \cup {Block(<<>>), Block(<<PrintStatement(IntLit(1))>>)}

\* push and print k numbers, with or without a final HALT
C22Params == [k : 0..2, n : 1..MaxOperand, halt : BOOLEAN]

C22Code(q) ==
    [i \in 1..(2 * q.k) |-> IF i % 2 = 1 THEN WithInt("IPUSH", q.n + i \div 2) ELSE Plain("IPRINT")]
    \o (IF q.halt THEN <<Plain("HALT")>> ELSE <<>>)

\* the caller stores a in its slot 0 and calls f; f stores b in a slot,
\* calls g when nested, and returns; the caller prints its slot 0
C29Params == [a : 1..MaxOperand, b : 1..MaxOperand, slot : 0..1, nested : BOOLEAN]

C29Code(q) ==
    <<WithInt("IPUSH", q.a), WithInt("ISTORE_LOCAL", 0), WithName("CALL", "f"),
      WithInt("ILOAD_LOCAL", 0), Plain("IPRINT"), Plain("HALT"),
      WithName("LABEL", "f"), WithInt("IPUSH", q.b + 2), WithInt("ISTORE_LOCAL", q.slot)>>
    \o (IF q.nested THEN <<WithName("CALL", "g")>> ELSE <<>>)
    \o <<WithInt("ILOAD_LOCAL", q.slot), Plain("IPRINT"), Plain("RET"),
         WithName("LABEL", "g"), WithInt("IPUSH", 7), WithInt("ISTORE_LOCAL", 0), Plain("RET")>>

\* the docstring's 2 + 3 * 4, loops, globals, floats, and code that faults
OtherCodes ==
    {<<WithInt("IPUSH", 2), WithInt("IPUSH", 3), WithInt("IPUSH", 4), Plain("IMUL"), Plain("IADD"), Plain("IPRINT"),
       Plain("HALT")>>,
     <<WithInt("IPUSH", 2), WithInt("ISTORE_GLOBAL", 0), WithName("LABEL", "top"), WithInt("ILOAD_GLOBAL", 0),
       WithName("BZ", "end"), WithInt("ILOAD_GLOBAL", 0), WithInt("IPUSH", 1), Plain("ISUB"),
       WithInt("ISTORE_GLOBAL", 0), WithName("GOTO", "top"), WithName("LABEL", "end"), Plain("HALT")>>,
     <<Ins("FPUSH", PyFloat(1, 2)), Ins("FPUSH", PyFloat(3, 2)), Plain("FADD"), Plain("FTOI"),
       Plain("ITOF"), Ins("FPUSH", PyFloat(1, 2)), Plain("FDIV"), Plain("FPRINT"), Plain("HALT")>>,
     <<Ins("FPUSH", PyFloat(1, 2)), WithInt("FSTORE_LOCAL", 0), WithInt("FLOAD_LOCAL", 0),
       Ins("FPUSH", PyFloat(1, 1)), WithName("FCMP", "<"), Plain("BPRINT"), WithInt("ILOAD_LOCAL", 0)>>,
     <<WithInt("IPUSH", 6), WithInt("IPUSH", -3), Plain("AND"), WithInt("IPUSH", 1), Plain("XOR"), WithInt("IPUSH", 8),
       Plain("OR"), Plain("IPRINT"), WithInt("IPUSH", 97), Plain("CPRINT"), WithInt("IPUSH", 1), WithInt("IPUSH", 0),
       Plain("IDIV")>>,
     <<WithInt("IPUSH", 1), WithInt("IPUSH", 2), WithName("ICMP", ">="), Plain("BPRINT"), Plain("IADD")>>,
     <<WithName("CALL", "f"), Plain("HALT"), WithName("LABEL", "f"), Plain("RET"), Plain("RET")>>,
     <<WithInt("IPUSH", 1), Plain("RET")>>,
     <<WithName("CALL", "nowhere")>>,
     <<WithInt("IPUSH", 1), Plain("NOP")>>,
     <<WithInt("IPUSH", 1), Plain("IPUSH")>>,
     <<Ins("IPUSH", PyFloat(1, 2))>>,
     <<WithInt("FPUSH", 1)>>,
     <<WithName("LABEL", "f"), WithName("LABEL", "f"), WithInt("IPUSH", 0), WithName("BZ", "f")>>}

Codes ==
    {C22Code(q) : q \in C22Params} \cup {C29Code(q) : q \in C29Params} \cup OtherCodes

WVMInit ==
    /\ \/ program \in Models /\ code = <<>> /\ status \in {"parsed", "unchecked"}
       \/ program = NoneNode /\ code \in Codes /\ status = "generated"
    /\ machine = NoneNode
    /\ have_errors = FALSE
    /\ out = ""
    /\ pc = 0
    /\ heap = <<>>
    /\ result = Outcome(RetNone(<<>>))
    /\ source = ""
    /\ SYMBOL_TABLE = NoSymbols
    /\ history = <<>>
    /\ gen = Generator(0, 1)
    /\ tokens = <<>>
    /\ stream = NoneNode
    /\ call = NoneNode

\* check_program(program) returns not program.have_errors
CheckProgramReturns ==
    /\ status = "parsed"
    /\ check(program).exc = ""
    /\ status' = IF have_errors THEN "rejected" ELSE "checked"
    /\ UNCHANGED <<program, pc, heap, out, result, parserVars, tokenizerVars, laterVars>>

\* check(program.model, context) raises
CheckProgramRaises ==
    /\ status = "parsed"
    /\ check(program).exc # ""
    /\ status' = check(program).exc
    /\ UNCHANGED <<program, pc, heap, out, result, parserVars, tokenizerVars, laterVars>>

\* code = generate_wvm(program), after check_program returned True or called
\* on its own
GenerateReturns ==
    /\ status \in {"checked", "unchecked"}
    /\ generate_wvm(program).exc = ""
    /\ code' = generate_wvm(program).code
    /\ status' = "generated"
    /\ UNCHANGED <<program, pc, heap, out, result, parserVars, tokenizerVars, streamVars,
                   machine, have_errors>>

GenerateRaises ==
    /\ status \in {"checked", "unchecked"}
    /\ generate_wvm(program).exc # ""
    /\ status' = generate_wvm(program).exc
    /\ UNCHANGED <<program, pc, heap, out, result, parserVars, tokenizerVars, laterVars>>

\* machine = WVM(); machine.run(code) up to the loop
Run ==
    /\ status = "generated"
    /\ machine' = [WVM EXCEPT !.pc = 0, !.running = TRUE, !.labels = Labels(code)]
    /\ status' = "running"
    /\ UNCHANGED <<program, pc, heap, out, result, parserVars, tokenizerVars, streamVars,
                   code, have_errors>>

\* the machine with the instruction fetched and self.pc += 1 done
Fetching == [machine EXCEPT !.pc = @ + 1]

\* one turn of the loop of run
Step ==
    /\ status = "running" /\ machine.running
    /\ machine.pc < Len(code)
    /\ Execute(Fetching, out, code[machine.pc + 1]).exc = ""
    /\ machine' = Execute(Fetching, out, code[machine.pc + 1]).m
    /\ out' = Execute(Fetching, out, code[machine.pc + 1]).out
    /\ UNCHANGED <<program, pc, heap, result, status, parserVars, tokenizerVars, streamVars,
                   code, have_errors>>

\* the instruction raises
StepRaises ==
    /\ status = "running" /\ machine.running
    /\ machine.pc < Len(code)
    /\ Execute(Fetching, out, code[machine.pc + 1]).exc # ""
    /\ machine' = Execute(Fetching, out, code[machine.pc + 1]).m
    /\ out' = Execute(Fetching, out, code[machine.pc + 1]).out
    /\ status' = Execute(Fetching, out, code[machine.pc + 1]).exc
    /\ UNCHANGED <<program, pc, heap, result, parserVars, tokenizerVars, streamVars,
                   code, have_errors>>

\* instructions[self.pc] with self.pc past the last instruction
FetchRaises ==
    /\ status = "running" /\ machine.running
    /\ machine.pc >= Len(code)
    /\ status' = "IndexError"
    /\ UNCHANGED <<program, pc, heap, out, result, parserVars, tokenizerVars, laterVars>>

\* self.running is false: the loop ends and run returns
RunReturns ==
    /\ status = "running" /\ ~machine.running
    /\ status' = "returned"
    /\ UNCHANGED <<program, pc, heap, out, result, parserVars, tokenizerVars, laterVars>>

WVMNext ==
    \/ CheckProgramReturns \/ CheckProgramRaises \/ GenerateReturns \/ GenerateRaises
    \/ Run \/ Step \/ StepRaises \/ FetchRaises \/ RunReturns

WVMSpec == WVMInit /\ [][WVMNext]_vars

(***************************************************************************)
(* metal.py: the register machine Metal. A Python int n is held as the     *)
(* pair hi, lo with n = hi * 65536 + lo and lo in 0..65535, so that the    *)
(* 32-bit values and what lies outside them are both representable.        *)
(***************************************************************************)
\* 2^16; MASK = 0xffffffff is Half * Half - 1
Half == 65536

IO_OUT == 65535

\* the int hi * 65536 + lo
Word(hi, lo) == [hi |-> hi + lo \div Half, lo |-> lo % Half]

Plus(a, b) == Word(a.hi + b.hi, a.lo + b.lo)
Minus(a, b) == Word(a.hi - b.hi, a.lo - b.lo)
Less(a, b) == a.hi < b.hi \/ (a.hi = b.hi /\ a.lo < b.lo)

\* n & MASK
Masked(n) == Word(n.hi % Half, n.lo)

\* byte i of n & MASK, the lowest being byte 0
Byte(n, i) ==
    CASE i = 0 -> n.lo % 256
      [] i = 1 -> n.lo \div 256
      [] i = 2 -> n.hi % 256
      [] i = 3 -> (n.hi \div 256) % 256

\* (a * b) & MASK by bytes: the products of bytes i and j with i + j > 3
\* are multiples of 2^32
MaskedProduct(a, b) ==
    LET column(k) == IF k = 0 THEN Byte(a, 0) * Byte(b, 0)
                     ELSE IF k = 1 THEN Byte(a, 0) * Byte(b, 1) + Byte(a, 1) * Byte(b, 0)
                     ELSE IF k = 2 THEN Byte(a, 0) * Byte(b, 2) + Byte(a, 1) * Byte(b, 1)
                                        + Byte(a, 2) * Byte(b, 0)
                     ELSE Byte(a, 0) * Byte(b, 3) + Byte(a, 1) * Byte(b, 2)
                          + Byte(a, 2) * Byte(b, 1) + Byte(a, 3) * Byte(b, 0)
    IN Masked(Word(column(2) + 256 * column(3), column(0) + 256 * column(1)))

\* str(n)
RECURSIVE Decimal(_)
Decimal(n) ==
    IF n.hi < 0 THEN "-" \o Decimal(Minus(Word(0, 0), n))
    ELSE IF n.hi = 0 /\ n.lo < 10 THEN ToString(n.lo)
    ELSE Decimal(Word(n.hi \div 10, ((n.hi % 10) * Half + n.lo) \div 10))
         \o ToString(((n.hi % 10) * Half + n.lo) % 10)

\* an instruction tuple: the register names in order, the comparison
\* operator of CMP, and the value of CONST or the offset
Instruction(op, names, cmp, value) ==
    [op |-> op, names |-> names, cmp |-> cmp, value |-> value]

\* the state set up by run before its loop
Metal(instructions) ==
    [registers |-> [name \in {"R0", "R1", "R2", "R3", "R4", "R5", "R6", "R7", "PC"} |->
                        IF name = "R7" THEN Word(0, Half - 2) ELSE Word(0, 0)],
     memory |-> [addr \in {} |-> Word(0, 0)],
     running |-> TRUE]

\* self.registers[rd] = value
SetRegister(m, rd, value) == [m EXCEPT !.registers = (rd :> value) @@ @]

\* self.memory[addr]: the index of the slot, or -1 when the list has none
Slot(addr) == IF addr.hi \in {0, -1} THEN addr.lo ELSE -1

ADD(m, o, ins) ==
    IF {ins.names[1], ins.names[2]} \subseteq DOMAIN m.registers
    THEN Executed(SetRegister(m, ins.names[3],
                              Masked(Plus(m.registers[ins.names[1]], m.registers[ins.names[2]]))), o)
    ELSE Faulted("KeyError", m, o)

SUB(m, o, ins) ==
    IF {ins.names[1], ins.names[2]} \subseteq DOMAIN m.registers
    THEN Executed(SetRegister(m, ins.names[3],
                              Masked(Minus(m.registers[ins.names[1]], m.registers[ins.names[2]]))), o)
    ELSE Faulted("KeyError", m, o)

MUL(m, o, ins) ==
    IF {ins.names[1], ins.names[2]} \subseteq DOMAIN m.registers
    THEN Executed(SetRegister(m, ins.names[3],
                              MaskedProduct(m.registers[ins.names[1]], m.registers[ins.names[2]])), o)
    ELSE Faulted("KeyError", m, o)

INC(m, o, ins) ==
    IF ins.names[1] \in DOMAIN m.registers
    THEN Executed(SetRegister(m, ins.names[1], Masked(Plus(m.registers[ins.names[1]], Word(0, 1)))), o)
    ELSE Faulted("KeyError", m, o)

\* DEC without "& MASK"
DEC_unmasked(m, o, ins) ==
    IF ins.names[1] \in DOMAIN m.registers
    THEN Executed(SetRegister(m, ins.names[1], Minus(m.registers[ins.names[1]], Word(0, 1))), o)
    ELSE Faulted("KeyError", m, o)

DEC(m, o, ins) ==
    IF ins.names[1] \in DOMAIN m.registers
    THEN Executed(SetRegister(m, ins.names[1], Masked(Minus(m.registers[ins.names[1]], Word(0, 1)))), o)
    ELSE Faulted("KeyError", m, o)

CMP(m, o, ins) ==
    IF ins.cmp \notin Comparisons THEN Faulted("RuntimeError", m, o)
    ELSE IF {ins.names[1], ins.names[2]} \subseteq DOMAIN m.registers
    THEN LET ra == m.registers[ins.names[1]]
             rb == m.registers[ins.names[2]]
             holds == CASE ins.cmp = "==" -> ra = rb
                        [] ins.cmp = "!=" -> ra # rb
                        [] ins.cmp = "<" -> Less(ra, rb)
                        [] ins.cmp = ">" -> Less(rb, ra)
                        [] ins.cmp = "<=" -> ~Less(rb, ra)
                        [] ins.cmp = ">=" -> ~Less(ra, rb)
         IN Executed(SetRegister(m, ins.names[3], Word(0, IF holds THEN 1 ELSE 0)), o)
    ELSE Faulted("KeyError", m, o)

CONST(m, o, ins) == Executed(SetRegister(m, ins.names[1], Masked(ins.value)), o)

LOAD(m, o, ins) ==
    IF ins.names[1] \notin DOMAIN m.registers THEN Faulted("KeyError", m, o)
    ELSE LET slot == Slot(Plus(m.registers[ins.names[1]], ins.value))
         IN IF slot = -1 THEN Faulted("IndexError", m, o)
            ELSE Executed(SetRegister(m, ins.names[2],
                                      Masked(IF slot \in DOMAIN m.memory THEN m.memory[slot]
                                             ELSE Word(0, 0))), o)

STORE(m, o, ins) ==
    IF {ins.names[1], ins.names[2]} \subseteq DOMAIN m.registers
    THEN LET addr == Plus(m.registers[ins.names[2]], ins.value)
         IN IF Slot(addr) = -1 THEN Faulted("IndexError", m, o)
            ELSE Executed([m EXCEPT !.memory = (Slot(addr) :> m.registers[ins.names[1]]) @@ @],
                          IF addr = Word(0, IO_OUT)
                          THEN o \o Decimal(m.registers[ins.names[1]]) \o "\n" ELSE o)
    ELSE Faulted("KeyError", m, o)

JMP(m, o, ins) ==
    IF ins.names[1] \in DOMAIN m.registers
    THEN Executed(SetRegister(m, "PC", Plus(m.registers[ins.names[1]], ins.value)), o)
    ELSE Faulted("KeyError", m, o)

BZ(m, o, ins) ==
    IF ins.names[1] \notin DOMAIN m.registers THEN Faulted("KeyError", m, o)
    ELSE IF m.registers[ins.names[1]] = Word(0, 0)
         THEN Executed(SetRegister(m, "PC", Plus(m.registers["PC"], ins.value)), o)
    ELSE Executed(m, o)

\* getattr(self, op)(*args)
MetalExecute(m, o, ins) ==
    CASE ins.op = "ADD" -> ADD(m, o, ins)
      [] ins.op = "SUB" -> SUB(m, o, ins)
      [] ins.op = "MUL" -> MUL(m, o, ins)
      [] ins.op = "INC" -> INC(m, o, ins)
      [] ins.op = "DEC" -> DEC(m, o, ins)
      [] ins.op = "CMP" -> CMP(m, o, ins)
      [] ins.op = "CONST" -> CONST(m, o, ins)
      [] ins.op = "LOAD" -> LOAD(m, o, ins)
      [] ins.op = "STORE" -> STORE(m, o, ins)
      [] ins.op = "JMP" -> JMP(m, o, ins)
      [] ins.op = "BZ" -> BZ(m, o, ins)
      [] ins.op = "HALT" -> Executed([m EXCEPT !.running = FALSE], o)
      [] OTHER -> Faulted("AttributeError", m, o)

\* self.instructions[PC]: the position of the instruction in code, counted
\* from 1, or 0 when the list has none; a negative PC counts from the end
Fetched_at(m) ==
    LET at == m.registers["PC"]
    IN IF at.hi = 0 /\ at.lo < Len(code) THEN at.lo + 1
       ELSE IF at.hi = -1 /\ Half - at.lo <= Len(code) THEN Len(code) - (Half - at.lo) + 1
       ELSE 0

\* the machine once the instruction is fetched and PC += 1 is done
Advanced(m) == SetRegister(m, "PC", Plus(m.registers["PC"], Word(0, 1)))

(***************************************************************************)
(* Runs of Metal().run(instructions)                                       *)
(***************************************************************************)
\* ('ADD', 'Ra', 'Rb', 'Rd') and the other forms of the docstring
Three(op, ra, rb, rd) == Instruction(op, <<ra, rb, rd>>, "", Word(0, 0))
One(op, ra) == Instruction(op, <<ra>>, "", Word(0, 0))
Compared(op, ra, rb, rd) == Instruction("CMP", <<ra, rb, rd>>, op, Word(0, 0))
Const(value, rd) == Instruction("CONST", <<rd>>, "", value)
Mem(op, rs, rd, offset) == Instruction(op, <<rs, rd>>, "", Word(0, offset))
Branch(op, rd, offset) == Instruction(op, <<rd>>, "", Word(0, offset))
Halt == Instruction("HALT", <<>>, "", Word(0, 0))

\* operands at the edges of the 32-bit range and outside it: 0, 1, 65535,
\* 65536, 2^31, 2^32 - 1, and for CONST also -1 and 2^32 + 1
Operands ==
    {Word(0, 0), Word(0, 1), Word(0, Half - 1), Word(1, 0), Word(Half \div 2, 0),
     Word(Half - 1, Half - 1)}

ConstOperands == Operands \cup {Word(0, -1), Word(Half, 1)}

\* R1 = a; R2 = b; rd = R1 op R2; print rd; print R1
C30Params ==
    [op : {"ADD", "SUB", "MUL", "INC", "DEC", "<", "=="}, a : Operands, b : Operands,
     rd : {"R0", "R3"}]
    \cup [op : {"CONST"}, a : ConstOperands, b : {Word(0, 0)}, rd : {"R0", "R3"}]

C30Code(q) ==
    <<Const(q.a, "R1"), Const(q.b, "R2"),
      CASE q.op \in {"ADD", "SUB", "MUL"} -> Three(q.op, "R1", "R2", q.rd)
        [] q.op \in {"INC", "DEC"} -> One(q.op, IF q.rd = "R0" THEN "R0" ELSE "R1")
        [] q.op = "CONST" -> Const(q.a, q.rd)
        [] OTHER -> Compared(q.op, "R1", "R2", q.rd),
      Mem("STORE", q.rd, "R0", IO_OUT), Mem("STORE", "R1", "R0", IO_OUT), Halt>>

\* a countdown loop; a value kept in memory; PC used as a register, stored
\* while negative and loaded back; and code that faults
OtherMetalCodes ==
    {<<Const(Word(0, 2), "R1"), Branch("BZ", "R1", 3), Mem("STORE", "R1", "R0", IO_OUT),
       One("DEC", "R1"), Branch("JMP", "R0", 1), Halt>>,
     <<Const(Word(Half - 1, 7), "R1"), Mem("STORE", "R1", "R7", 0), Mem("LOAD", "R7", "R2", 0),
       Mem("LOAD", "R7", "R3", -1), Mem("STORE", "R2", "R0", -1), Mem("LOAD", "R0", "R4", IO_OUT),
       Halt>>,
     <<Branch("JMP", "R0", -2), Halt, Mem("STORE", "PC", "R0", 5), Mem("LOAD", "R0", "R5", 5)>>,
     <<One("DEC", "PC")>>,
     <<One("INC", "R1")>>,
     <<Mem("LOAD", "R7", "R1", 2)>>,
     <<Mem("STORE", "R1", "R7", 2)>>,
     <<Compared("<>", "R1", "R2", "R3")>>,
     <<Three("ADD", "R1", "R8", "R3")>>,
     <<Three("ADD", "R1", "R7", "R8"), Three("SUB", "R8", "R7", "R0"), One("NOP", "R1")>>,
     <<Branch("JMP", "R7", 0)>>}

MetalCodes == {C30Code(q) : q \in C30Params} \cup OtherMetalCodes

MetalInit ==
    /\ code \in MetalCodes
    /\ machine = NoneNode
    /\ status = "loaded"
    /\ program = NoneNode
    /\ have_errors = FALSE
    /\ out = ""
    /\ pc = 0
    /\ heap = <<>>
    /\ result = Outcome(RetNone(<<>>))
    /\ source = ""
    /\ SYMBOL_TABLE = NoSymbols
    /\ history = <<>>
    /\ gen = Generator(0, 1)
    /\ tokens = <<>>
    /\ stream = NoneNode
    /\ call = NoneNode

\* machine.run(instructions) up to its loop
MetalRun ==
    /\ status = "loaded"
    /\ machine' = Metal(code)
    /\ status' = "running"
    /\ UNCHANGED <<program, pc, heap, out, result, parserVars, tokenizerVars, streamVars,
                   code, have_errors>>

\* one turn of the loop: fetch, PC += 1, the instruction, R0 = 0
Cycle ==
    /\ status = "running" /\ machine.running
    /\ Fetched_at(machine) # 0
    /\ MetalExecute(Advanced(machine), out, code[Fetched_at(machine)]).exc = ""
    /\ machine' = SetRegister(MetalExecute(Advanced(machine), out, code[Fetched_at(machine)]).m,
                              "R0", Word(0, 0))
    /\ out' = MetalExecute(Advanced(machine), out, code[Fetched_at(machine)]).out
    /\ UNCHANGED <<program, pc, heap, result, status, parserVars, tokenizerVars, streamVars,
                   code, have_errors>>

\* the instruction raises: the exception leaves run
CycleRaises ==
    /\ status = "running" /\ machine.running
    /\ Fetched_at(machine) # 0
    /\ MetalExecute(Advanced(machine), out, code[Fetched_at(machine)]).exc # ""
    /\ machine' = MetalExecute(Advanced(machine), out, code[Fetched_at(machine)]).m
    /\ out' = MetalExecute(Advanced(machine), out, code[Fetched_at(machine)]).out
    /\ status' = MetalExecute(Advanced(machine), out, code[Fetched_at(machine)]).exc
    /\ UNCHANGED <<program, pc, heap, result, parserVars, tokenizerVars, streamVars,
                   code, have_errors>>

\* self.instructions[PC] with PC outside the list
MetalFetchRaises ==
    /\ status = "running" /\ machine.running
    /\ Fetched_at(machine) = 0
    /\ status' = "IndexError"
    /\ UNCHANGED <<program, pc, heap, out, result, parserVars, tokenizerVars, laterVars>>

\* self.running is false: run returns
MetalReturns ==
    /\ status = "running" /\ ~machine.running
    /\ status' = "returned"
    /\ UNCHANGED <<program, pc, heap, out, result, parserVars, tokenizerVars, laterVars>>

MetalNext == MetalRun \/ Cycle \/ CycleRaises \/ MetalFetchRaises \/ MetalReturns

MetalSpec == MetalInit /\ [][MetalNext]_vars

(***************************************************************************)
(* Properties.                                                             *)
(***************************************************************************)
World == [heap |-> heap, out |-> ""]

\* the (type, value) an expression without side effects evaluates to in the
\* root context of the current state
ValueOf(e) == Outcome(Interp(e, Root, World))

Finished == status # "running"
Normal == status \in {"running", "returned"}

\* the text "a\n...b\n" of the numbers a..b without skip
RECURSIVE Lines(_, _, _)
Lines(a, b, skip) ==
    IF a > b THEN ""
    ELSE (IF a = skip THEN "" ELSE ToString(a) \o "\n") \o Lines(a + 1, b, skip)

\* C1: a function called from a nested scope does not see the caller's
\* local bindings: with no global x the body's reference to x is an error,
\* and with a global x the body reads the global value g, not the caller's l.
C1_CalleeSeesDefinitionScope ==
    \A q \in C1Params :
        (program = C1Program(q) /\ Finished) =>
            IF q.shadow THEN status = "returned" /\ out = ToString(q.g) \o "\n"
            ELSE status = "RuntimeError" /\ out = ""

\* C2: the Assignment expression x = e yields the value of e: as a statement
\* its result is e's value, and "print x = e;" prints e's value, whatever x
\* held before.
C2_AssignmentYieldsAssignedValue ==
    \A q \in C2Params :
        program = C2Program(q) =>
            /\ Normal
            /\ pc = 3 => result = ValueOf(q.e)
            /\ pc = 5 => out = PrintText(ValueOf(q.e).t, ValueOf(q.e).v)

\* C3: the value of the call f() is the (type, value) of the expression of
\* the return statement that was executed, for all four types and whether
\* the return is a direct statement of the body or nested in if / while.
C3_CallYieldsReturnedValue ==
    \A q \in C3Params :
        program = C3Program(q) =>
            /\ Normal
            /\ pc = 3 => result = ValueOf(q.e)

\* C4: every argument is evaluated once, left to right, in the caller's
\* context, and each parameter is bound in the new frame to exactly the
\* value of its argument: f(arg) returns arg's value through "return p",
\* and h(A, B) runs A's side effects once, then B's.
C4_ParametersBoundToArgumentValues ==
    /\ \A q \in C4Params :
          program = C4Program(q) =>
              /\ Normal
              /\ pc = 4 => /\ result = ValueOf(q.arg)
                           /\ heap[2].parent = Root
                           /\ heap[2].env["p"].value = ValueOf(q.arg).v
    /\ \A q \in C4OrderParams :
          program = C4OrderProgram(q) =>
              /\ Normal
              /\ pc = 4 => /\ out = ToString(q.m) \o "\n" \o ToString(q.n) \o "\n"
                           /\ heap[2].env["a"].value = PyInt(q.m)
                           /\ heap[2].env["b"].value = PyInt(q.m + q.n)
                           /\ result.v = PyInt(-(q.n))
                           /\ heap[Root].env["x"].value = PyInt(q.m + q.n)

\* C5: a call whose body ends without executing a return ends in a
\* RuntimeError: the statement holding the call never completes.
C5_MissingReturnIsRuntimeError ==
    \A q \in C5Params :
        program = C5Program(q) =>
            /\ pc <= 2
            /\ Finished => status = "RuntimeError"

\* C6: break leaves the innermost while and execution goes on after the
\* loop; continue goes back to the loop test; no statement after the
\* break / continue runs in that iteration; in a nested loop the exit ends
\* or restarts the inner loop only.  model6 prints exactly its threshold
\* (S7: "2") and ends.
C6_BreakAndContinue ==
    /\ \A k \in 1..MaxK :
          program = Model6(k) =>
              /\ Normal
              /\ out = IF pc >= 3 THEN ToString(k) \o "\n" ELSE ""
              /\ pc >= 3 => heap[Root].env["n"].value = PyInt(k)
    /\ \A q \in C6Params :
          program = C6Program(q) =>
              LET printed == IF q.exit = "break" THEN Lines(1, q.k - 1, 0)
                             ELSE Lines(1, MaxK, q.k)
              IN /\ Normal
                 /\ pc = 3 => /\ out = printed
                              /\ heap[Root].env["n"].value =
                                    PyInt(IF q.exit = "break" THEN q.k ELSE MaxK)
                 /\ pc = 4 => out = printed \o "0\n"
    /\ \A q \in C6Params :
          program = C6NestedProgram(q) =>
              LET printed == IF q.exit = "break" THEN Lines(1, q.k - 1, 0)
                             ELSE Lines(1, MaxK, q.k)
                  twice == printed \o "0\n" \o printed \o "0\n"
              IN /\ Normal
                 /\ pc = 4 => /\ out = twice
                              /\ heap[Root].env["i"].value = PyInt(2)
                 /\ pc = 5 => out = twice \o "9\n"

C6_Witness ==
    /\ program = Model6(2) /\ status = "returned" /\ out = "2\n"

\* C7: what the programs of C7Program end in when the exits are caught by
\* the right construct only
C7Expected(q) ==
    CASE q.at = "loop" ->
            CASE q.what = "Break" -> [status |-> "returned", out |-> "0\n", n |-> 2]
              [] q.what = "Continue" -> [status |-> "returned", out |-> "0\n", n |-> 2]
              [] q.what = "FunctionReturnFlowBreaker" ->
                    [status |-> "returned", out |-> "", n |-> 1]
              [] OTHER -> [status |-> q.what, out |-> "", n |-> 0]
      [] q.at = "call" ->
            CASE q.what = "Break" -> [status |-> "returned", out |-> "", n |-> 1]
              [] q.what = "Continue" -> [status |-> "returned", out |-> "", n |-> 2]
              [] q.what = "FunctionReturnFlowBreaker" ->
                    [status |-> "returned", out |-> "1\n2\n", n |-> 2]
              [] OTHER -> [status |-> q.what, out |-> "", n |-> 1]
      [] q.at = "top" ->
            CASE q.what = "FunctionReturnFlowBreaker" ->
                    [status |-> "returned", out |-> "", n |-> 1]
              [] OTHER -> [status |-> q.what, out |-> "", n |-> 0]

\* C7: a while statement intercepts break and continue only (a return or an
\* error raised in its body passes through it), and a function call
\* intercepts return only (a break, continue or error raised in the body
\* passes through it to the caller's loop or to the top).
C7_ExitsCaughtByTheirConstructOnly ==
    \A q \in C7Params :
        (program = C7Program(q) /\ Finished) =>
            /\ status = C7Expected(q).status
            /\ out = C7Expected(q).out
            /\ q.at = "call" => heap[Root].env["n"].value = PyInt(C7Expected(q).n)
            /\ (q.at # "call" /\ status = "returned") =>
                    result = Outcome(Tuple("int", PyInt(C7Expected(q).n), <<>>))

C7_Witness ==
    /\ program = C7Program([at |-> "loop", what |-> "FunctionReturnFlowBreaker"])
    /\ status = "returned"
    /\ result.v = PyInt(1)

\* whether the left operand decides the result of q's logical operator
ShortCircuits(q) ==
    \/ q.op = "&&" /\ q.l = "false"
    \/ q.op = "||" /\ q.l = "true"

\* C8: when the left operand of && is false, or of || is true, the right
\* operand is not evaluated: it prints nothing, assigns nothing, creates no
\* scope or frame, and the result is the left operand's value.
C8_ShortCircuit ==
    \A q \in C8Params :
        (program = C8Program(q) /\ ShortCircuits(q)) =>
            /\ Normal
            /\ pc = 4 => /\ out = ""
                         /\ heap[Root].env["x"].value = PyInt(0)
                         /\ Len(heap) = 1
                         /\ result = Outcome(Tuple("bool", PyBool(q.l = "true"), <<>>))

C8_Witness ==
    \E q \in C8Params :
        /\ program = C8Program(q) /\ ShortCircuits(q) /\ q.right = "call"
        /\ pc = 4
        /\ result.oc = "tuple"

\* every const binding of every context is the same after the step
ConstBindingsKept ==
    \A i \in DOMAIN heap :
        \A name \in DOMAIN heap[i].env :
            heap[i].env[name].kind = "const" =>
                /\ i \in DOMAIN heap'
                /\ name \in DOMAIN heap'[i].env
                /\ heap'[i].env[name] = heap[i].env[name]

\* the index of the statement of C9Program(q) that assigns to the const
C9Attempted(q) == IF q.from = "function" THEN 4 ELSE 3

\* C9: no step changes a const binding, and a step that executes an
\* assignment to a const (from the top level, an if-block, a compound
\* expression, a function body or a while body) ends in a RuntimeError
\* with the name still evaluating to the initializer's value.
C9_ConstImmutable ==
    [][/\ ConstBindingsKept
       /\ \A q \in C9Params :
             (program = C9Program(q) /\ pc = C9Attempted(q)) =>
                 /\ status' = "RuntimeError"
                 /\ \A i \in DOMAIN heap' :
                       Lookup(heap', i, "c").b =
                           Binding("const", q.t, ValueOf(q.init).v)]_vars

C9_Witness ==
    \E q \in C9Params :
        /\ program = C9Program(q) /\ q.new # q.init /\ q.from = "function"
        /\ pc = C9Attempted(q)
        /\ status = "RuntimeError"
        /\ Len(heap) = 2
        /\ heap[Root].env["c"].value = ValueOf(q.init).v

\* C10: an int division by zero ends in the interpreter's RuntimeError.
C10_DivisionByZeroIsRuntimeError ==
    \A q \in C10Params :
        (program = C10Program(q) /\ q.t = "int" /\ q.r = 0) =>
            /\ pc = 1
            /\ Finished => status = "RuntimeError"


\* C11: the body of a while loop is a scope of its own: a declaration in
\* the body runs on every iteration without a redeclaration error, and
\* once the loop has ended the name is not bound in the enclosing scope.
C11_WhileBodyHasOwnScope ==
    \A q \in C11Params :
        program = C11Program(q) =>
            /\ Normal
            /\ pc >= 3 => /\ heap[Root].env["i"].value = PyInt(q.n)
                          /\ "t" \notin DOMAIN heap[Root].env


\* the calls of parse_source that have ended
Runs == {i \in 1..Len(history) : history[i].oc # "read"}

\* parse_source of the text returned a Block of this one statement
ParsesTo(i, statement) ==
    /\ history[i].oc = "ok"
    /\ history[i].model = Block(<<statement>>)

\* the left-associative chain of the first n operators of ops
RECURSIVE LeftChain(_, _)
LeftChain(ops, n) ==
    IF n = 0 THEN Name(Names[1])
    ELSE BinOp(ops[n], LeftChain(ops, n - 1), Name(Names[n + 1]))

\* C12: every chain "a op b op c ..." of the operators '*' and '/' is
\* accepted and parses to the left-associative BinOp chain in source order,
\* whatever the mix of the two operators.
C12_MultiplicativeChainsParse ==
    \A ops \in C12Params : \A i \in Runs :
        history[i].source = ChainSource(ops) => ParsesTo(i, LeftChain(ops, Len(ops)))

\* the tree of "e1 op1 e2 op2 e3" when '*' and '/' bind tighter than '+'
\* and '-' and operators of one level associate to the left
C13Expected(q) ==
    IF q.op1 \in {"+", "-"} /\ q.op2 \in {"*", "/"}
    THEN BinOp(q.op1, q.e[1].node, BinOp(q.op2, q.e[2].node, q.e[3].node))
    ELSE BinOp(q.op2, BinOp(q.op1, q.e[1].node, q.e[2].node), q.e[3].node)

S1Model ==
    Block(<<PrintStatement(BinOp("+", Integer("2"),
                                 BinOp("*", Integer("3"), Integer("4"))))>>)

C14_ChainedComparisonRejected ==
    \A q \in C14Params : \A i \in Runs :
        history[i].source = C14Source(q) =>
            /\ history[i].oc = "SyntaxError"
            /\ history[i].model = NoneNode

C14_Witness ==
    /\ status = "SyntaxError"
    /\ source = C14Source([op1 |-> "<", op2 |-> "<"])
    /\ history[1].oc = "SyntaxError"

\* C15: the chained assignment "x = y = 2 + 3;" is accepted and parses to
\* Assignment(x, Assignment(y, BinOp(+, 2, 3))).
C15_ChainedAssignmentParses ==
    \A i \in Runs :
        history[i].source = C15Source =>
            ParsesTo(i, Assignment(Name("x"),
                                   Assignment(Name("y"),
                                              BinOp("+", Integer("2"), Integer("3")))))

\* the statement "print f(1);" of the programs of C16Source
PrintOfCall == PrintStatement(FunctionApplication(Name("f"), <<Integer("1")>>))

\* C16: "f(1)" parses to a FunctionApplication whether the definition of f
\* comes before the call, after it, or not at all.
C16_NameBeforeParenIsCall ==
    \A where \in C16Params : \A i \in Runs :
        history[i].source = C16Source(where) =>
            /\ history[i].oc = "ok"
            /\ \E k \in 1..Len(history[i].model.statements) :
                  history[i].model.statements[k] = PrintOfCall

\* C17: parsing a text yields the same model, or the same exception,
\* whatever the process parsed before: the same as in a fresh process.
C17_ParseIndependentOfEarlierRuns ==
    \A i \in Runs :
        LET fresh == parse_source(history[i].source, NoSymbols)
        IN /\ history[i].oc = (IF fresh.oc = "ok" THEN "ok" ELSE fresh.exc)
           /\ history[i].model = fresh.node

\* the last statements that are expression statements
ExpressionStatements == {"1;", "t = 1;"}

\* C18: a compound expression is accepted when its last statement is an
\* expression statement and is a syntax error when its last statement is a
\* declaration, print, if, while, break, continue or return.
C18_CompoundEndsInExpression ==
    \A last \in LastStatements : \A i \in Runs :
        history[i].source = C18Source(last) =>
            history[i].oc = (IF last \in ExpressionStatements THEN "ok"
                             ELSE "SyntaxError")

\* C19: when a parsed model is printed by to_source_pp, the text parses and
\* yields a model equal to the one printed.
C19_ParsePrintRoundTrip ==
    \A i \in Runs :
        history[i].origin = "to_source_pp" =>
            /\ history[i].oc = "ok"
            /\ history[i].model = history[i - 1].model

\* C20: the tokenizer ends for every source text, after yielding a token
\* sequence whose last element is the only EOF token: no run ends in an
\* exception, and a run that has ended has yielded exactly one EOF, last.
C20_TokenizerEndsWithOneEOF ==
    /\ status \in {"running", "returned"}
    /\ status = "returned" =>
          /\ tokens # <<>>
          /\ \A i \in 1..Len(tokens) : tokens[i].type = "EOF" <=> i = Len(tokens)

\* text[:len(prefix)] == prefix
StartsWith(text, prefix) == Slice(text, 0, Len(prefix)) = prefix

\* C21: a character literal, at the start of the text or right after a
\* one-character token, is lexed as one CHAR token whose lexeme is the whole
\* literal from quote to quote, and the token after it starts at or after
\* the character that follows the closing quote.
C21_CharLiteralIsOneToken ==
    \A literal \in CharLiterals : \A before \in {"", "x", ";"} :
       StartsWith(source, before \o literal) =>
          LET j == IF before = "" THEN 1 ELSE 2
          IN /\ status # "running" => Len(tokens) >= j
             /\ Len(tokens) >= j =>
                   tokens[j] = Token("CHAR", literal, 1, Len(before))
             /\ Len(tokens) > j =>
                   tokens[j + 1].index >= Len(before) + Len(literal)

RECURSIVE Newlines(_, _)
\* text[:k].count('\n')
Newlines(text, k) ==
    IF k <= 0 THEN 0
    ELSE Newlines(text, k - 1) + (IF TextAt(text, k - 1) = "\n" THEN 1 ELSE 0)

\* C27: the line number of every token is 1 plus the number of newline
\* characters before the token's start index.
C27_LineNumberCountsNewlines ==
    \A i \in 1..Len(tokens) :
       tokens[i].lineno = 1 + Newlines(source, Min(tokens[i].index, Len(source)))

RECURSIVE Yielded(_, _, _)
\* list(tokenize(program)), up to the end of the generator or its exception
Yielded(text, g, list) ==
    LET r == NextToken(text, g)
    IN IF r.oc = "yield" THEN Yielded(text, r.g, Append(list, r.tok)) ELSE list

\* the tokens handed out are the first tokens of the tokenizer, in order,
\* and the lookahead, if there is one, is the token after them
InOrder ==
    LET all == Yielded(source, Generator(0, 1), <<>>)
    IN /\ Len(tokens) <= Len(all)
       /\ \A i \in 1..Len(tokens) : tokens[i] = all[i]
       /\ stream.lookahead # NoToken =>
             /\ Len(tokens) < Len(all)
             /\ stream.lookahead = all[Len(tokens) + 1]

\* what one call does to the stream: peek hands out nothing, leaves a
\* lookahead in place and answers about it; accept and expect hand out the
\* lookahead iff its type is the one asked for, and leave it in place when
\* they return None or raise SyntaxError
CallEffect ==
    LET la == IF stream.lookahead # NoToken THEN stream.lookahead
              ELSE NextToken(source, stream.g).tok
        fetched == stream.lookahead # NoToken \/ NextToken(source, stream.g).oc = "yield"
    IN /\ call'.op = "peek" =>
             /\ tokens' = tokens
             /\ stream.lookahead # NoToken => stream' = stream
             /\ fetched => /\ call'.oc = "ok"
                           /\ stream'.lookahead = la
                           /\ call'.answer = (la.type = call'.type)
       /\ call'.op \in {"accept", "expect"} /\ fetched =>
             IF la.type = call'.type
             THEN /\ call'.oc = "ok" /\ call'.tok = la
                  /\ tokens' = Append(tokens, la)
                  /\ stream'.lookahead = NoToken
             ELSE /\ call'.tok = NoToken
                  /\ call'.oc = (IF call'.op = "accept" THEN "ok" ELSE "SyntaxError")
                  /\ tokens' = tokens
                  /\ stream'.lookahead = la

\* C28: under any sequence of peek, accept and expect the stream hands out
\* the tokenizer's tokens in order, each at most once; peek never consumes
\* and answers about the same token when repeated; accept and expect
\* consume exactly the lookahead iff its type matches; a failed accept or
\* expect leaves the lookahead in place.
C28_StreamDeliversInOrder == [](InOrder) /\ [][CallEffect]_vars

\* a failed accept and a failed expect have left the lookahead, and a later
\* call has taken it: two tokens are handed out
C28_Witness ==
    /\ Len(tokens) >= 2
    /\ call.op = "expect" /\ call.oc = "SyntaxError"
    /\ stream.lookahead # NoToken


\* the unary operations the language defines: - and + on int or float, ! on
\* bool
C25WellTyped(q) ==
    \/ q.op \in {"-", "+"} /\ q.t \in {"int", "float"}
    \/ q.op = "!" /\ q.t = "bool"

\* C25: a unary operation on an operand of the wrong type ends the run in an
\* evaluation error and prints nothing: - and + yield a result only for int
\* and float, ! only for bool.
C25_IllTypedUnaryRejected ==
    \A q \in C25Params :
        program = C25Program(q) /\ Finished /\ ~C25WellTyped(q) =>
            status = "RuntimeError" /\ out = ""


\* the names bound in context c, and the value bound to name there
Keys(c) == DOMAIN heap[c].env

\* C26: an assignment changes the one binding of the innermost scope that
\* holds the name; every other scope of the chain, the issuing one included,
\* keeps its keys and values, and no binding is created.
C26_AssignChangesOneBinding ==
    \A q \in C26Params :
        program = C26Program(q) /\ pc >= 3 /\ Len(heap) >= 3 =>
            /\ Keys(1) = {"x"} /\ Keys(2) = {"y"} /\ Keys(3) = {"z"}
            /\ heap[1].env["x"].value = PyInt(IF q.name = "x" THEN q.v ELSE 0)
            /\ heap[2].env["y"].value = PyInt(IF q.name = "y" THEN q.v ELSE 0)
            /\ heap[3].env["z"].value = PyInt(IF q.name = "z" THEN q.v ELSE 0)


\* C22: run stops normally, as after HALT, when the program counter has
\* moved past the last instruction: the run that ends with the machine at
\* or past the end of the instructions, or with running false, has returned.
C22_RunHaltsAfterLastInstruction ==
    [][status = "running" /\ status' # "running"
       /\ (machine.pc >= Len(code) \/ ~machine.running)
       => status' = "returned"]_vars


\* what interpret_program(model) prints
InterpreterOutput(model) ==
    InterpBlock(model, Root, [heap |-> <<[env |-> NoEnv, parent |-> 0]>>, out |-> ""]).st.out

\* C23: for a program of print statements over int or float arithmetic,
\* generate_wvm returns code, and the run of that code prints what the
\* interpreter prints for the program.
C23_CompiledOutputEqualsInterpreted ==
    [][\A q \in C23Params :
          program = C23Program(q) =>
              /\ ~GenerateRaises
              /\ status' = "returned" => out' = InterpreterOutput(program)]_vars


\* C24: check_program does not raise on a parsed program; it returns False
\* iff a statement has operands of different types, and then the error is
\* recorded on the program object.
C24_CheckProgramAccumulatesErrors ==
    [][\A q \in C24Params :
          program = C24Program(q) =>
              /\ ~CheckProgramRaises
              /\ CheckProgramReturns =>
                    /\ have_errors' = (q.left # q.right)
                    /\ (status' = "rejected") = (q.left # q.right)]_vars


\* every frame above the first holds the return address of a CALL: the
\* index of the instruction right after it
ReturnsAfterCall ==
    status \in {"running", "returned"} =>
        \A i \in 2..Len(machine.stack) :
            /\ machine.stack[i].return.py = "int"
            /\ code[machine.stack[i].return.n].op = "CALL"

\* the effect of one instruction on the frame stack
CallEffectOnFrames ==
    status = "running" /\ machine' # machine =>
        LET ins == code[machine.pc + 1]
            depth == Len(machine.stack)
        IN CASE ins.op = "CALL" /\ status' = "running" ->
                   /\ machine'.stack = Append(machine.stack, Frame(PyInt(machine.pc + 1), NoSlots))
                   /\ machine'.pc = machine.labels[ins.arg.s]
             [] ins.op = "RET" /\ status' = "running" ->
                   /\ machine'.stack = SubSeq(machine.stack, 1, depth - 1)
                   /\ machine'.pc = machine.stack[depth].return.n
             [] ins.op = "RET" /\ status' # "running" -> machine'.stack = machine.stack
             [] OTHER ->
                   /\ Len(machine'.stack) = depth + (IF ins.op = "CALL" THEN 1 ELSE 0)
                   /\ \A i \in 1..(depth - 1) : machine'.stack[i] = machine.stack[i]

\* the caller of C29Code back at its HALT: one frame, its slot 0 as stored
BackInCaller(q) ==
    /\ status = "returned"
    /\ machine.stack = <<Frame(PyNone, 0 :> PyInt(q.a))>>
    /\ out = ToString(q.b + 2) \o "\n" \o ToString(q.a) \o "\n"

\* C29: CALL pushes one fresh frame holding the address of the next
\* instruction and jumps to the label, RET pops that frame and continues
\* there; no other instruction changes the depth or a frame below the top,
\* so after nested calls have returned the caller has its own frame and
\* slots back.
C29_CallDiscipline ==
    /\ [](ReturnsAfterCall)
    /\ [][CallEffectOnFrames]_vars
    /\ [](\A q \in C29Params : code = C29Code(q) /\ status \notin {"generated", "running"}
                                  => BackInCaller(q))

\* a nested call whose callees stored into slot 0 has returned to the caller
C29_Witness ==
    \E q \in C29Params : /\ q.nested /\ q.slot = 0 /\ q.a # q.b + 2
                         /\ code = C29Code(q) /\ BackInCaller(q)


\* n is in 0 .. 2^32 - 1
InRange(n) == n.hi \in 0..(Half - 1) /\ n.lo \in 0..(Half - 1)

\* C30: once run has set the registers up, and after every instruction, R0
\* holds 0 and each of R1..R7 holds a value in 0 .. 2^32 - 1; DEC of a
\* register holding 0 leaves 2^32 - 1, and an instruction that names R0 as
\* its destination leaves 0 there.
C30_RegistersHold32Bits ==
    status # "loaded" =>
        /\ machine.registers["R0"] = Word(0, 0)
        /\ \A name \in {"R1", "R2", "R3", "R4", "R5", "R6", "R7"} :
               InRange(machine.registers[name])
        /\ \A q \in C30Params :
               code = C30Code(q) /\ status = "returned" =>
                   /\ q.rd = "R0" => \E rest \in {"0\n", "1\n", "65535\n", "65536\n",
                                                  "2147483648\n", "4294967295\n"} :
                                         out = "0\n" \o rest
                   /\ q.op = "DEC" /\ q.a = Word(0, 0) /\ q.rd = "R3" =>
                         out = "0\n4294967295\n"

\* DEC has run on a register holding 0, and the run has returned
C30_Witness ==
    \E q \in C30Params :
        /\ q.op = "DEC" /\ q.a = Word(0, 0) /\ q.rd = "R3"
        /\ code = C30Code(q)
        /\ status = "returned"
        /\ machine.registers["R1"] = Word(Half - 1, Half - 1)
        /\ out = "0\n4294967295\n"

====
